---- MODULE Spec2Model ----
(***************************************************************************)
(* A model of dqchecks/panacea.py: the comparators that check a company    *)
(* workbook against a template workbook (sheet names, used area, sheet     *)
(* structure, formulas, formula errors), the normalizers that turn a       *)
(* comparator's result into validation-event rows, and the orchestrators   *)
(* that run both over the sheets of two workbooks.                         *)
(*                                                                         *)
(* A worksheet is modelled by what openpyxl derives from its cell store:   *)
(* max_row and max_column are the bounding box of the cells that exist,    *)
(* and a cell inside the box that was never written reads as a cell with   *)
(* value None and data type 'n'.  ws.cell(row, column) creates the cell it *)
(* returns, so reading outside the box grows the box.                      *)
(***************************************************************************)
EXTENDS Integers, Sequences, FiniteSets, TLC

VARIABLES
    wb_template,   \* the template workbook: its worksheets, in workbook order
    wb_company,    \* the company workbook
    pc,            \* "ready" | "returned" | "edited" | "repeated"
    call,          \* the last call made: its function name and arguments
    result,        \* what the last call returned or raised
    before,        \* what the same call returned before the last edit or repeat
    uuid_count     \* how many identifiers uuid.uuid4() has handed out

vars == <<wb_template, wb_company, pc, call, result, before, uuid_count>>

(***************************************************************************)
(* Bounds of the model.                                                    *)
(***************************************************************************)
MaxRow == 3
MaxCol == 2
MaxSheets == 2
MaxRecords == 3

(***************************************************************************)
(* Python values.                                                          *)
(***************************************************************************)
None == [type |-> "NoneType"]
PyStr(s) == [type |-> "str", s |-> s]
PyInt(n) == [type |-> "int", n |-> n]

\* isinstance(v, str)
IsStr(v) == v.type = "str"

\* bool(v): None, "" and 0 are false
Truthy(v) ==
    CASE v.type = "NoneType" -> FALSE
      [] v.type = "str" -> v.s # ""
      [] v.type = "int" -> v.n # 0
      [] OTHER -> TRUE

\* str(v), as an f-string formats a value
Format(v) ==
    CASE v.type = "NoneType" -> "None"
      [] v.type = "str" -> v.s
      [] v.type = "int" -> ToString(v.n)

\* A returned value, and a raised exception.
Return(v) == [exception |-> "", value |-> v]
Raise(e) == [exception |-> e]
NoResult == [exception |-> "", value |-> None]
Raised(r) == r.exception # ""

\* s.startswith(prefix), over the texts of the model: what may follow a prefix.
Suffixes == {"A1+1", "A1+2", "Costs", "Totals"}
StartsWith(s, prefix) == \E rest \in Suffixes \cup {""} : s = prefix \o rest

(***************************************************************************)
(* openpyxl worksheets.                                                    *)
(***************************************************************************)
\* A cell that was created and never written.
BlankCell == [value |-> None, data_type |-> "n"]

\* Cell.value's setter: the data type follows the value.
ErrorCodes == {"#NULL!", "#DIV/0!", "#VALUE!", "#REF!", "#NAME?", "#NUM!", "#N/A"}
BoundCell(v) ==
    [value |-> v,
     data_type |-> CASE v.type = "NoneType" -> "n"
                     [] v.type = "int" -> "n"
                     [] v.type = "str" /\ StartsWith(v.s, "=") -> "f"
                     [] v.type = "str" /\ v.s \in ErrorCodes -> "e"
                     [] OTHER -> "s"]

Box(rows, cols) == (1..rows) \X (1..cols)

\* A worksheet with no cell: max_row = max_column = 1.
EmptySheet(title) ==
    [title |-> title, max_row |-> 1, max_column |-> 1,
     cells |-> [p \in Box(1, 1) |-> BlankCell]]

Max(a, b) == IF a >= b THEN a ELSE b
Min(a, b) == IF a <= b THEN a ELSE b

\* The cell ws.cell(row, column) returns.
CellAt(sheet, row, col) ==
    IF <<row, col>> \in DOMAIN sheet.cells THEN sheet.cells[<<row, col>>] ELSE BlankCell

\* The worksheet after ws.cell(row, column) created the cell.
Touched(sheet, row, col) ==
    IF <<row, col>> \in DOMAIN sheet.cells THEN sheet
    ELSE LET r == Max(sheet.max_row, row)
             c == Max(sheet.max_column, col)
         IN  [sheet EXCEPT !.max_row = r, !.max_column = c,
                           !.cells = [p \in Box(r, c) |-> CellAt(sheet, p[1], p[2])]]

\* The worksheet after ws.cell(row, column).value = v, or after a loader stored the cell.
WithCell(sheet, row, col, cell) ==
    LET t == Touched(sheet, row, col)
    IN  [t EXCEPT !.cells[<<row, col>>] = cell]

(***************************************************************************)
(* openpyxl.utils.get_column_letter                                        *)
(***************************************************************************)
Letters == <<"A", "B", "C", "D", "E", "F", "G", "H", "I", "J", "K", "L", "M",
             "N", "O", "P", "Q", "R", "S", "T", "U", "V", "W", "X", "Y", "Z">>

RECURSIVE get_column_letter(_)
get_column_letter(col) ==
    LET rem == ((col - 1) % 26) + 1
        rest == (col - rem) \div 26
    IN  IF rest = 0 THEN Letters[rem] ELSE get_column_letter(rest) \o Letters[rem]

CellName(row, col) == get_column_letter(col) \o ToString(row)

(***************************************************************************)
(* get_used_area                                                           *)
(***************************************************************************)
\* A test of the first cell of the row only.
RowIsEmpty_FirstCellOnly(sheet, row) == CellAt(sheet, row, 1).value = None

RowIsEmpty(sheet, row) ==
    \A col \in 1..sheet.max_column : CellAt(sheet, row, col).value = None

ColumnIsEmpty(sheet, col) ==
    \A row \in 1..sheet.max_row : CellAt(sheet, row, col).value = None

\* A loop over range(max_row, 1, -1): row 1 is never counted.
RECURSIVE CountEmptyRows_KeepsRow1(_, _)
CountEmptyRows_KeepsRow1(sheet, row) ==
    IF row <= 1 THEN 0
    ELSE IF RowIsEmpty(sheet, row) THEN 1 + CountEmptyRows_KeepsRow1(sheet, row - 1)
    ELSE 0

\* The loop over range(max_row, 0, -1): counts until the first non-empty row.
RECURSIVE CountEmptyRows(_, _)
CountEmptyRows(sheet, row) ==
    IF row = 0 THEN 0
    ELSE IF RowIsEmpty(sheet, row) THEN 1 + CountEmptyRows(sheet, row - 1)
    ELSE 0

RECURSIVE CountEmptyColumns(_, _)
CountEmptyColumns(sheet, col) ==
    IF col = 0 THEN 0
    ELSE IF ColumnIsEmpty(sheet, col) THEN 1 + CountEmptyColumns(sheet, col - 1)
    ELSE 0

get_used_area(sheet) ==
    LET empty_row_count == CountEmptyRows(sheet, sheet.max_row)
        empty_column_count == CountEmptyColumns(sheet, sheet.max_column)
    IN  [empty_rows |-> empty_row_count,
         empty_columns |-> empty_column_count,
         last_used_row |-> sheet.max_row - empty_row_count,
         last_used_column |-> sheet.max_column - empty_column_count]

(***************************************************************************)
(* Python dicts keep insertion order: a dict is a sequence of entries.     *)
(***************************************************************************)
EmptyDict == << >>

Keys(d) == {d[i].key : i \in DOMAIN d}

\* d[key]
Lookup(d, key) == d[CHOOSE i \in DOMAIN d : d[i].key = key].value

\* d.setdefault(key, []).extend(items)
SetDefaultExtend(d, key, items) ==
    IF key \in Keys(d)
    THEN [i \in DOMAIN d |-> IF d[i].key = key
                             THEN [key |-> key, value |-> d[i].value \o items]
                             ELSE d[i]]
    ELSE Append(d, [key |-> key, value |-> items])

\* d.setdefault(key, []).append(item)
SetDefaultAppend(d, key, item) == SetDefaultExtend(d, key, <<item>>)

\* The lists list(s) can return for a set s: the order of a set is not specified.
RECURSIVE ListsOf(_)
ListsOf(s) ==
    IF s = {} THEN {<< >>}
    ELSE UNION {{<<x>> \o l : l \in ListsOf(s \ {x})} : x \in s}

Range(seq) == {seq[i] : i \in DOMAIN seq}

(***************************************************************************)
(* openpyxl workbooks: the worksheets in order, with distinct titles.      *)
(***************************************************************************)
sheetnames(wb) == [i \in DOMAIN wb |-> wb[i].title]

\* wb[name]
SheetIndex(wb, name) == CHOOSE i \in DOMAIN wb : wb[i].title = name
SheetOf(wb, name) == wb[SheetIndex(wb, name)]

(***************************************************************************)
(* validate_tabs_between_spreadsheets                                      *)
(* list1 and list2 are the lists list(missing_in_1) and list(missing_in_2) *)
(* turn out to be.                                                         *)
(***************************************************************************)
\* A differ that looks one way only: sheets the first workbook lacks go unnoticed.
MissingIn1_OneWay(spreadsheet1, spreadsheet2) == {}

MissingIn1(spreadsheet1, spreadsheet2) ==
    Range(sheetnames(spreadsheet2)) \ Range(sheetnames(spreadsheet1))

MissingIn2(spreadsheet1, spreadsheet2) ==
    Range(sheetnames(spreadsheet1)) \ Range(sheetnames(spreadsheet2))

validate_tabs_between_spreadsheets(spreadsheet1, spreadsheet2, list1, list2) ==
    LET missing_in_1 == MissingIn1(spreadsheet1, spreadsheet2)
        missing_in_2 == MissingIn2(spreadsheet1, spreadsheet2)
        errors1 == IF missing_in_1 # {}
                   THEN <<[key |-> "Missing In Spreadsheet 1", value |-> list1]>>
                   ELSE EmptyDict
        errors2 == IF missing_in_2 # {}
                   THEN Append(errors1, [key |-> "Missing In Spreadsheet 2", value |-> list2])
                   ELSE errors1
    IN  IF missing_in_1 # {} \/ missing_in_2 # {}
        THEN [status |-> "Error",
              description |-> "Spreadsheets have different sheet names.",
              errors |-> errors2]
        ELSE [status |-> "Ok",
              description |-> "Both spreadsheets have the same sheet names.",
              errors |-> EmptyDict]

(***************************************************************************)
(* check_sheet_structure                                                   *)
(***************************************************************************)
\* The "Empty Sheet" step, taking a sheet for empty when it has one row and one column.
EmptySheetErrors_RowAndColumn(sheet1, sheet2) ==
    IF sheet1.max_row = 1 /\ sheet1.max_column = 1
       /\ sheet2.max_row = 1 /\ sheet2.max_column = 1
    THEN EmptyDict
    ELSE LET e1 == IF sheet1.max_row = 1 /\ sheet1.max_column = 1
                   THEN SetDefaultAppend(EmptyDict, "Empty Sheet", sheet1.title)
                   ELSE EmptyDict
         IN  IF sheet2.max_row = 1 /\ sheet2.max_column = 1
             THEN SetDefaultAppend(e1, "Empty Sheet", sheet2.title)
             ELSE e1

\* The "Empty Sheet" step.
EmptySheetErrors(sheet1, sheet2) ==
    IF sheet1.max_row = 1 /\ sheet1.max_column = 1
       /\ sheet2.max_row = 1 /\ sheet2.max_column = 1
    THEN EmptyDict
    ELSE LET e1 == IF sheet1.max_row = 1 \/ sheet1.max_column = 1
                   THEN SetDefaultAppend(EmptyDict, "Empty Sheet", sheet1.title)
                   ELSE EmptyDict
         IN  IF sheet2.max_row = 1 \/ sheet2.max_column = 1
             THEN SetDefaultAppend(e1, "Empty Sheet", sheet2.title)
             ELSE e1

\* The "Row/Column Count" step, comparing the numbers of rows only.
ShapeErrors_RowsOnly(errors, rows1, cols1, rows2, cols2) ==
    IF rows1 # rows2
    THEN SetDefaultAppend(errors, "Row/Column Count",
             "Template file has " \o ToString(rows1) \o " rows and " \o ToString(cols1)
             \o " columns, Company file has " \o ToString(rows2) \o " rows and "
             \o ToString(cols2) \o " columns.")
    ELSE errors

\* The "Row/Column Count" step.
ShapeErrors(errors, rows1, cols1, rows2, cols2) ==
    IF <<rows1, cols1>> # <<rows2, cols2>>
    THEN SetDefaultAppend(errors, "Row/Column Count",
             "Template file has " \o ToString(rows1) \o " rows and " \o ToString(cols1)
             \o " columns, Company file has " \o ToString(rows2) \o " rows and "
             \o ToString(cols2) \o " columns.")
    ELSE errors

\* A header read one row too low.
HeaderOf_NextRow(sheet, header_row_number, cols) ==
    IF header_row_number > 0
    THEN [c \in 1..cols |-> CellAt(sheet, header_row_number + 1, c).value]
    ELSE << >>

\* [sheet.cell(row=header_row_number, column=c).value for c in range(1, cols + 1)]
HeaderOf(sheet, header_row_number, cols) ==
    IF header_row_number > 0
    THEN [c \in 1..cols |-> CellAt(sheet, header_row_number, c).value]
    ELSE << >>

\* The worksheet after the header row was read: every cell read exists.
RECURSIVE TouchedRow(_, _, _)
TouchedRow(sheet, row, cols) ==
    IF cols = 0 THEN sheet
    ELSE Touched(TouchedRow(sheet, row, cols - 1), row, cols)

AfterHeaderRead(sheet, header_row_number, cols) ==
    IF header_row_number > 0 THEN TouchedRow(sheet, header_row_number, cols) ELSE sheet

HeaderMessage(i, h1, h2) ==
    "Column " \o ToString(i) \o ": Template: [" \o Format(h1) \o "] != ["
    \o Format(h2) \o "] :Company"

\* enumerate(zip(header1, header2)), kept where h1 != h2, as messages from position i on
RECURSIVE DiffHeaders(_, _, _)
DiffHeaders(header1, header2, i) ==
    IF i > Min(Len(header1), Len(header2)) THEN << >>
    ELSE (IF header1[i] # header2[i]
          THEN <<HeaderMessage(i, header1[i], header2[i])>>
          ELSE << >>) \o DiffHeaders(header1, header2, i + 1)

\* The "Header Mismatch" step.
HeaderErrors(errors, header1, header2) ==
    IF header1 # header2 /\ DiffHeaders(header1, header2, 1) # << >>
    THEN SetDefaultExtend(errors, "Header Mismatch", DiffHeaders(header1, header2, 1))
    ELSE errors

check_sheet_structure(sheet1, sheet2, header_row_number) ==
    LET shape1 == get_used_area(sheet1)
        shape2 == get_used_area(sheet2)
        rows1 == shape1.last_used_row
        cols1 == shape1.last_used_column
        rows2 == shape2.last_used_row
        cols2 == shape2.last_used_column
        header1 == HeaderOf(sheet1, header_row_number, cols1)
        header2 == HeaderOf(sheet2, header_row_number, cols2)
        errors == HeaderErrors(
                      ShapeErrors(EmptySheetErrors(sheet1, sheet2), rows1, cols1, rows2, cols2),
                      header1, header2)
    IN  IF errors # EmptyDict
        THEN [status |-> "Error",
              description |-> "The following discrepancies were found in the sheet structure:",
              errors |-> errors]
        ELSE [status |-> "Ok",
              description |-> "Spreadsheets '" \o sheet1.title \o "' and '" \o sheet2.title
                              \o "' have the same structure.",
              errors |-> EmptyDict]

\* What check_sheet_structure leaves of a worksheet it was given.
SheetAfterStructureCheck(sheet, header_row_number) ==
    AfterHeaderRead(sheet, header_row_number, get_used_area(sheet).last_used_column)

(***************************************************************************)
(* compare_formulas                                                        *)
(***************************************************************************)
\* The k-th cell position of the loops "for row ...: for col ...".
RowMajor(k, cols) == <<((k - 1) \div cols) + 1, ((k - 1) % cols) + 1>>

\* A test that takes every text for a formula.
IsFormula_AnyText(v) == IsStr(v)

IsFormula(v) == IsStr(v) /\ StartsWith(v.s, "=")

FormulaMessage(sheet1, sheet2, cell_name, v1, v2) ==
    sheet1.title \o "!" \o cell_name \o " (" \o v1.s \o ") != "
    \o sheet2.title \o "!" \o cell_name \o " (" \o v2.s \o ")"

\* differing_cells after the first k cell positions were compared
RECURSIVE DifferingCells(_, _, _)
DifferingCells(sheet1, sheet2, k) ==
    IF k = 0 THEN EmptyDict
    ELSE LET d == DifferingCells(sheet1, sheet2, k - 1)
             p == RowMajor(k, sheet1.max_column)
             v1 == CellAt(sheet1, p[1], p[2]).value
             v2 == CellAt(sheet2, p[1], p[2]).value
             cell_name == CellName(p[1], p[2])
         IN  IF IsFormula(v1) /\ IsFormula(v2) /\ v1 # v2
             THEN SetDefaultAppend(d, cell_name,
                                   FormulaMessage(sheet1, sheet2, cell_name, v1, v2))
             ELSE d

\* The comparison without the check of the dimensions.
compare_formulas_NoDimensionCheck(sheet1, sheet2) ==
    LET differing_cells == DifferingCells(sheet1, sheet2, sheet1.max_row * sheet1.max_column)
    IN  IF differing_cells # EmptyDict
        THEN [status |-> "Error",
              description |-> "Found formula differences",
              errors |-> differing_cells]
        ELSE [status |-> "Ok",
              description |-> "All formulas are equivalent",
              errors |-> EmptyDict]

compare_formulas(sheet1, sheet2) ==
    LET rows1 == sheet1.max_row
        cols1 == sheet1.max_column
        rows2 == sheet2.max_row
        cols2 == sheet2.max_column
        differing_cells == DifferingCells(sheet1, sheet2, rows1 * cols1)
    IN  IF <<rows1, cols1>> # <<rows2, cols2>>
        THEN [status |-> "Error",
              description |-> "Sheets have different dimensions: '" \o sheet1.title
                              \o "' has " \o ToString(rows1) \o " rows & " \o ToString(cols1)
                              \o " columns, '" \o sheet2.title \o "' has " \o ToString(rows2)
                              \o " rows & " \o ToString(cols2) \o " columns.",
              errors |-> EmptyDict]
        ELSE IF differing_cells # EmptyDict
        THEN [status |-> "Error",
              description |-> "Found formula differences",
              errors |-> differing_cells]
        ELSE [status |-> "Ok",
              description |-> "All formulas are equivalent",
              errors |-> EmptyDict]

(***************************************************************************)
(* check_formula_errors                                                    *)
(***************************************************************************)
\* A test that counts only the known error strings.
IsErrorCell_KnownCodes(cell) ==
    cell.data_type = "e" /\ IsStr(cell.value) /\ cell.value.s \in ErrorCodes

IsErrorCell(cell) == cell.data_type = "e" /\ IsStr(cell.value)

\* error_details after the first k cells of sheet.iter_rows()
RECURSIVE ErrorDetails(_, _)
ErrorDetails(sheet, k) ==
    IF k = 0 THEN EmptyDict
    ELSE LET d == ErrorDetails(sheet, k - 1)
             p == RowMajor(k, sheet.max_column)
             cell == CellAt(sheet, p[1], p[2])
         IN  IF IsErrorCell(cell)
             THEN SetDefaultAppend(d, cell.value.s, CellName(p[1], p[2]))
             ELSE d

\* A scanner that reports what it found and still says "Ok".
check_formula_errors_AlwaysOk(sheet) ==
    [status |-> "Ok", description |-> "No errors found",
     errors |-> ErrorDetails(sheet, sheet.max_row * sheet.max_column)]

check_formula_errors(sheet) ==
    LET error_details == ErrorDetails(sheet, sheet.max_row * sheet.max_column)
    IN  IF error_details = EmptyDict
        THEN [status |-> "Ok", description |-> "No errors found", errors |-> EmptyDict]
        ELSE [status |-> "Error", description |-> "Found errors", errors |-> error_details]

(***************************************************************************)
(* What a normalizer is given.  input_data is a Python value: a dict       *)
(* (of which the normalizers read only the 'errors' entry) or not a dict.  *)
(* A context is a named tuple: its class and its fields.                   *)
(***************************************************************************)
PyList(items) == [type |-> "list", items |-> items]
PyDict(items) == [type |-> "dict", items |-> items]
IsDict(v) == v.type = "dict"
IsList(v) == v.type = "list"

\* The dict a comparator returned, as a normalizer reads it.
AsInput(res) ==
    PyDict(<<[key |-> "errors",
              value |-> PyDict([i \in DOMAIN res.errors |->
                                   [key |-> res.errors[i].key,
                                    value |-> PyList([j \in DOMAIN res.errors[i].value |->
                                                         PyStr(res.errors[i].value[j])])]])]>>)

\* d.get(key, default)
Get(d, key, default) == IF key \in Keys(d.items) THEN Lookup(d.items, key) ELSE default

MissingSheetContext(rule_cd, error_category, error_severity_cd) ==
    [class |-> "MissingSheetContext", Rule_Cd |-> rule_cd,
     Error_Category |-> error_category, Error_Severity_Cd |-> error_severity_cd]

FormulaErrorSheetContext(rule_cd, sheet_cd, error_category, error_severity_cd) ==
    [class |-> "FormulaErrorSheetContext", Rule_Cd |-> rule_cd, Sheet_Cd |-> sheet_cd,
     Error_Category |-> error_category, Error_Severity_Cd |-> error_severity_cd]

StructureDiscrepancyContext(rule_cd, sheet_cd, error_category, error_severity_cd) ==
    [class |-> "StructureDiscrepancyContext", Rule_Cd |-> rule_cd, Sheet_Cd |-> sheet_cd,
     Error_Category |-> error_category, Error_Severity_Cd |-> error_severity_cd]

FormulaDifferencesContext(rule_cd, sheet_cd, error_category, error_severity_cd) ==
    [class |-> "FormulaDifferencesContext", Rule_Cd |-> rule_cd, Sheet_Cd |-> sheet_cd,
     Error_Category |-> error_category, Error_Severity_Cd |-> error_severity_cd]

\* The fields of a context, as iterating over the tuple or listing them gives them.
ContextFields(context) == {context[f] : f \in DOMAIN context \ {"class"}}

\* uuid.uuid4().hex, the n-th identifier handed out: never one handed out before.
Uuid4Hex(n) == PyStr("uuid" \o ToString(n))

\* What a normalizer leaves: what it returned or raised, and the identifiers used up.
Outcome(out, uuids) == [out |-> out, uuids |-> uuids]

\* ", ".join(items)
RECURSIVE Join_Comma(_)
Join_Comma(items) ==
    IF items = << >> THEN ""
    ELSE IF Len(items) = 1 THEN items[1].s
    ELSE items[1].s \o ", " \o Join_Comma(Tail(items))

\* " -- ".join(items)
RECURSIVE Join(_)
Join(items) ==
    IF items = << >> THEN ""
    ELSE IF Len(items) = 1 THEN items[1].s
    ELSE items[1].s \o " -- " \o Join(Tail(items))

(***************************************************************************)
(* create_missing_sheet_row, create_dataframe_missing_sheets               *)
(***************************************************************************)
create_missing_sheet_row(sheet, context, uuids) ==
    IF ~IsStr(sheet) \/ ~Truthy(sheet) THEN Outcome(Raise("ValueError"), uuids)
    ELSE IF context.class # "MissingSheetContext" THEN Outcome(Raise("ValueError"), uuids)
    ELSE IF ~Truthy(context.Rule_Cd) \/ ~IsStr(context.Rule_Cd)
    THEN Outcome(Raise("ValueError"), uuids)
    ELSE IF ~Truthy(context.Error_Category) \/ ~IsStr(context.Error_Category)
    THEN Outcome(Raise("ValueError"), uuids)
    ELSE IF ~Truthy(context.Error_Severity_Cd) \/ ~IsStr(context.Error_Severity_Cd)
    THEN Outcome(Raise("ValueError"), uuids)
    ELSE Outcome(Return([Event_Id |-> Uuid4Hex(uuids + 1),
                         Sheet_Cd |-> sheet,
                         Rule_Cd |-> context.Rule_Cd,
                         Error_Category |-> context.Error_Category,
                         Error_Severity_Cd |-> context.Error_Severity_Cd,
                         Error_Desc |-> PyStr("Missing Sheet")]),
                 uuids + 1)

\* The loop "for sheet in missing_sheets", from the rows collected so far.
RECURSIVE MissingSheetRows(_, _, _, _)
MissingSheetRows(missing_sheets, context, rows, uuids) ==
    IF missing_sheets = << >> THEN Outcome(Return(rows), uuids)
    ELSE LET sheet == Head(missing_sheets)
             row == create_missing_sheet_row(sheet, context, uuids)
         IN  IF ~IsStr(sheet) \/ ~Truthy(sheet) THEN Outcome(Raise("ValueError"), uuids)
             ELSE IF Raised(row.out) THEN row
             ELSE MissingSheetRows(Tail(missing_sheets), context,
                                   Append(rows, row.out.value), row.uuids)

\* The normalizer without the fallback to an empty list: what is not a list fails.
create_dataframe_missing_sheets_NoFallback(input_data, context, uuids) ==
    IF ~IsDict(input_data) THEN Outcome(Raise("ValueError"), uuids)
    ELSE IF context.class # "MissingSheetContext" THEN Outcome(Raise("ValueError"), uuids)
    ELSE LET errors == Get(input_data, "errors", PyDict(EmptyDict))
         IN  IF ~IsDict(errors) THEN Outcome(Raise("AttributeError"), uuids)
             ELSE LET found == Get(errors, "Missing In Spreadsheet 2", PyList(<< >>))
                  IN  IF ~IsList(found) THEN Outcome(Raise("ValueError"), uuids)
                      ELSE MissingSheetRows(found.items, context, << >>, uuids)

create_dataframe_missing_sheets(input_data, context, uuids) ==
    IF ~IsDict(input_data) THEN Outcome(Raise("ValueError"), uuids)
    ELSE IF context.class # "MissingSheetContext" THEN Outcome(Raise("ValueError"), uuids)
    ELSE LET errors == Get(input_data, "errors", PyDict(EmptyDict))
         IN  IF ~IsDict(errors) THEN Outcome(Raise("AttributeError"), uuids)
             ELSE LET found == Get(errors, "Missing In Spreadsheet 2", PyList(<< >>))
                      missing_sheets == IF IsList(found) THEN found.items ELSE << >>
                  IN  MissingSheetRows(missing_sheets, context, << >>, uuids)

(***************************************************************************)
(* validate_input_data, extract_error_rows, create_row_for_error,          *)
(* create_dataframe_formula_errors                                         *)
(***************************************************************************)
\* The exception validate_input_data raises, "" when it raises none.
validate_input_data(input_data, context) ==
    IF ~IsDict(input_data) THEN "ValueError"
    ELSE IF context.class # "FormulaErrorSheetContext" THEN "ValueError"
    ELSE IF \E v \in ContextFields(context) : v = None THEN "ValueError"
    ELSE ""

\* The entries of errors whose value is a list, in order.
RECURSIVE ListEntries(_)
ListEntries(entries) ==
    IF entries = << >> THEN << >>
    ELSE (IF IsList(Head(entries).value) THEN <<Head(entries)>> ELSE << >>)
         \o ListEntries(Tail(entries))

extract_error_rows(input_data) ==
    LET errors == Get(input_data, "errors", PyDict(EmptyDict))
    IN  IF ~IsDict(errors) THEN Raise("ValueError")
        ELSE Return(ListEntries(errors.items))

\* The row with the error type and the cell in each other's place.
create_row_for_error_Swapped(sheet_cd, error_type, cell, context, uuids) ==
    [Event_Id |-> Uuid4Hex(uuids + 1),
     Sheet_Cd |-> sheet_cd,
     Cell_Reference |-> error_type,
     Rule_Cd |-> context.Rule_Cd,
     Error_Category |-> context.Error_Category,
     Error_Severity_Cd |-> context.Error_Severity_Cd,
     Error_Desc |-> cell]

create_row_for_error(sheet_cd, error_type, cell, context, uuids) ==
    [Event_Id |-> Uuid4Hex(uuids + 1),
     Sheet_Cd |-> sheet_cd,
     Cell_Reference |-> cell,
     Rule_Cd |-> context.Rule_Cd,
     Error_Category |-> context.Error_Category,
     Error_Severity_Cd |-> context.Error_Severity_Cd,
     Error_Desc |-> error_type]

\* The loop with one identifier drawn for an error type, given to each of its cells.
RECURSIVE CellRows_OneIdPerType(_, _, _, _)
CellRows_OneIdPerType(error_type, cells, context, uuids) ==
    IF cells = << >> THEN << >>
    ELSE <<create_row_for_error(context.Sheet_Cd, error_type, Head(cells), context, uuids)>>
         \o CellRows_OneIdPerType(error_type, Tail(cells), context, uuids)

\* The loop "for cell in cells" of one error type.
RECURSIVE CellRows(_, _, _, _)
CellRows(error_type, cells, context, uuids) ==
    IF cells = << >> THEN << >>
    ELSE <<create_row_for_error(context.Sheet_Cd, error_type, Head(cells), context, uuids)>>
         \o CellRows(error_type, Tail(cells), context, uuids + 1)

\* The loop "for error_type, cells in error_rows".
RECURSIVE ErrorRows(_, _, _)
ErrorRows(error_rows, context, uuids) ==
    IF error_rows = << >> THEN << >>
    ELSE LET first == CellRows(PyStr(Head(error_rows).key), Head(error_rows).value.items,
                               context, uuids)
         IN  first \o ErrorRows(Tail(error_rows), context, uuids + Len(first))

create_dataframe_formula_errors(input_data, context, uuids) ==
    IF validate_input_data(input_data, context) # ""
    THEN Outcome(Raise(validate_input_data(input_data, context)), uuids)
    ELSE LET error_rows == extract_error_rows(input_data)
         IN  IF Raised(error_rows) THEN Outcome(error_rows, uuids)
             ELSE LET rows == ErrorRows(error_rows.value, context, uuids)
                  IN  Outcome(Return(rows), uuids + Len(rows))

(***************************************************************************)
(* create_dataframe_structure_discrepancies                                *)
(***************************************************************************)
AllStr(items) == \A i \in DOMAIN items : IsStr(items[i])

\* not all([rule_cd, error_severity_cd, sheet_cd, error_category])
ContextHasMissingValues(context) == \E v \in ContextFields(context) : ~Truthy(v)

\* The loop "for errortype, discrepancy in input_data['errors'].items()".
RECURSIVE StructureRows(_, _, _, _)
StructureRows(entries, context, rows, uuids) ==
    IF entries = << >> THEN Outcome(Return(rows), uuids)
    ELSE LET discrepancy == Head(entries).value
         IN  IF ~IsList(discrepancy) THEN Outcome(Raise("ValueError"), uuids)
             ELSE IF ~AllStr(discrepancy.items) THEN Outcome(Raise("ValueError"), uuids)
             ELSE StructureRows(Tail(entries), context,
                      Append(rows, [Event_Id |-> Uuid4Hex(uuids + 1),
                                    Sheet_Cd |-> context.Sheet_Cd,
                                    Rule_Cd |-> context.Rule_Cd,
                                    Error_Category |-> context.Error_Category,
                                    Error_Severity_Cd |-> context.Error_Severity_Cd,
                                    Error_Desc |-> PyStr(Join(discrepancy.items))]),
                      uuids + 1)

create_dataframe_structure_discrepancies(input_data, context, uuids) ==
    IF ~IsDict(input_data) THEN Outcome(Raise("TypeError"), uuids)
    ELSE IF context.class # "StructureDiscrepancyContext" THEN Outcome(Raise("TypeError"), uuids)
    ELSE IF "errors" \notin Keys(input_data.items) \/ ~IsDict(Lookup(input_data.items, "errors"))
    THEN Outcome(Raise("ValueError"), uuids)
    ELSE IF ContextHasMissingValues(context) THEN Outcome(Raise("ValueError"), uuids)
    ELSE StructureRows(Lookup(input_data.items, "errors").items, context, << >>, uuids)

(***************************************************************************)
(* create_dataframe_formula_differences                                    *)
(***************************************************************************)
\* The loop "for cellreference, discrepancies in errors.items()": the row's Event_Id
\* is drawn before the descriptions are joined.
RECURSIVE DifferenceRows(_, _, _, _)
DifferenceRows(entries, context, rows, uuids) ==
    IF entries = << >> THEN Outcome(Return(rows), uuids)
    ELSE LET discrepancies == Head(entries).value
         IN  IF ~IsList(discrepancies) \/ ~AllStr(discrepancies.items)
             THEN Outcome(Raise("TypeError"), uuids + 1)
             ELSE DifferenceRows(Tail(entries), context,
                      Append(rows, [Event_Id |-> Uuid4Hex(uuids + 1),
                                    Sheet_Cd |-> context.Sheet_Cd,
                                    Rule_Cd |-> context.Rule_Cd,
                                    Cell_Reference |-> PyStr(Head(entries).key),
                                    Error_Category |-> context.Error_Category,
                                    Error_Severity_Cd |-> context.Error_Severity_Cd,
                                    Error_Desc |-> PyStr(Join(discrepancies.items))]),
                      uuids + 1)

create_dataframe_formula_differences(input_data, context, uuids) ==
    IF ~IsDict(input_data) THEN Outcome(Raise("ValueError"), uuids)
    ELSE IF context.class # "FormulaDifferencesContext" THEN Outcome(Raise("ValueError"), uuids)
    ELSE IF ContextHasMissingValues(context) THEN Outcome(Raise("ValueError"), uuids)
    ELSE LET errors == Get(input_data, "errors", PyDict(EmptyDict))
         IN  IF ~IsDict(errors) THEN Outcome(Raise("AttributeError"), uuids)
             ELSE DifferenceRows(errors.items, context, << >>, uuids)

(***************************************************************************)
(* The orchestrators.  A DataFrame is the sequence of its rows; pd.concat  *)
(* of a list of frames is their concatenation, and fails on an empty list. *)
(***************************************************************************)
RECURSIVE Flatten(_)
Flatten(frames) ==
    IF frames = << >> THEN << >> ELSE Head(frames) \o Flatten(Tail(frames))

pd_concat(frames) ==
    IF frames = << >> THEN Raise("ValueError") ELSE Return(Flatten(frames))

\* The two workbooks handed to the differ the wrong way round.
find_missing_sheets_Swapped(template, company, list1, list2, uuids) ==
    create_dataframe_missing_sheets(
        AsInput(validate_tabs_between_spreadsheets(company, template, list2, list1)),
        MissingSheetContext(PyStr("?"), PyStr("Missing Sheet"), PyStr("soft")), uuids)

find_missing_sheets(template, company, list1, list2, uuids) ==
    LET a == validate_tabs_between_spreadsheets(template, company, list1, list2)
        missing_sheet_context ==
            MissingSheetContext(PyStr("?"), PyStr("Missing Sheet"), PyStr("soft"))
    IN  create_dataframe_missing_sheets(AsInput(a), missing_sheet_context, uuids)

\* The loop "for sheetname in wb.sheetnames", from sheet i on.
RECURSIVE FormulaErrorFrames(_, _, _, _)
FormulaErrorFrames(wb, i, frames, uuids) ==
    IF i > Len(wb) THEN Outcome(Return(frames), uuids)
    ELSE LET formula_errors == check_formula_errors(wb[i])
             formula_error_sheet_context ==
                 FormulaErrorSheetContext(PyStr("?"), PyStr(wb[i].title),
                                          PyStr("Formula Error"), PyStr("hard"))
             sheet_error_df == create_dataframe_formula_errors(
                                   AsInput(formula_errors), formula_error_sheet_context, uuids)
         IN  IF Raised(sheet_error_df.out) THEN sheet_error_df
             ELSE FormulaErrorFrames(wb, i + 1, Append(frames, sheet_error_df.out.value),
                                     sheet_error_df.uuids)

\* The orchestrator with the frames concatenated newest first.
find_formula_errors_NewestFirst(wb, uuids) ==
    LET all == FormulaErrorFrames(wb, 1, << >>, uuids)
        newest_first(frames) == [i \in DOMAIN frames |-> frames[Len(frames) + 1 - i]]
    IN  IF Raised(all.out) THEN all
        ELSE Outcome(pd_concat(newest_first(all.out.value)), all.uuids)

find_formula_errors(wb, uuids) ==
    LET all == FormulaErrorFrames(wb, 1, << >>, uuids)
    IN  IF Raised(all.out) THEN all ELSE Outcome(pd_concat(all.out.value), all.uuids)

CommonSheetnames(template, company) ==
    Range(sheetnames(template)) \cap Range(sheetnames(company))

\* The header row find_shape_differences asks for.
FOutHeaderRow == 2
\* The header row asked for every sheet, whatever its name.
HeaderRowFor_EverySheet(sheetname) == FOutHeaderRow

HeaderRowFor(sheetname) == IF StartsWith(sheetname, "fOut_") THEN FOutHeaderRow ELSE 0

\* The loop "for sheetname in common_sheetnames" of find_shape_differences, over the
\* names in the order the set gives them.
RECURSIVE ShapeFrames(_, _, _, _, _)
ShapeFrames(template, company, names, frames, uuids) ==
    IF names = << >> THEN Outcome(Return(frames), uuids)
    ELSE LET sheetname == Head(names)
             context == StructureDiscrepancyContext(PyStr("?"), PyStr(sheetname),
                            PyStr("Structure Discrepancy"), PyStr("hard"))
             discrepancies == check_sheet_structure(SheetOf(template, sheetname),
                                  SheetOf(company, sheetname), HeaderRowFor(sheetname))
             df == create_dataframe_structure_discrepancies(
                       AsInput(discrepancies), context, uuids)
         IN  IF Raised(df.out) THEN df
             ELSE ShapeFrames(template, company, Tail(names),
                              Append(frames, df.out.value), df.uuids)

find_shape_differences(template, company, names, uuids) ==
    LET all == ShapeFrames(template, company, names, << >>, uuids)
    IN  IF Raised(all.out) THEN all
        ELSE IF all.out.value = << >> THEN Outcome(Return(<< >>), all.uuids)
        ELSE Outcome(pd_concat(all.out.value), all.uuids)

\* A workbook after find_shape_differences checked the structure of its common sheets.
WorkbookAfterShapeCheck(wb, common) ==
    [i \in DOMAIN wb |->
        IF wb[i].title \in common
        THEN SheetAfterStructureCheck(wb[i], HeaderRowFor(wb[i].title))
        ELSE wb[i]]

\* The loop "for sheetcd in common_sheetnames" of find_formula_differences.
RECURSIVE DifferenceFrames(_, _, _, _, _)
DifferenceFrames(template, company, names, frames, uuids) ==
    IF names = << >> THEN Outcome(Return(frames), uuids)
    ELSE LET sheetcd == Head(names)
             context == FormulaDifferencesContext(PyStr("?"), PyStr(sheetcd),
                            PyStr("Formula Difference"), PyStr("hard"))
             a == compare_formulas(SheetOf(template, sheetcd), SheetOf(company, sheetcd))
             df == create_dataframe_formula_differences(AsInput(a), context, uuids)
         IN  IF Raised(df.out) THEN df
             ELSE DifferenceFrames(template, company, Tail(names),
                                   Append(frames, df.out.value), df.uuids)

find_formula_differences(template, company, names, uuids) ==
    LET all == DifferenceFrames(template, company, names, << >>, uuids)
    IN  IF Raised(all.out) THEN all ELSE Outcome(pd_concat(all.out.value), all.uuids)

(***************************************************************************)
(* create_same_desc_diff_boncode_validation_event.  A DataFrame of measure *)
(* records is its set of columns and the sequence of its rows.             *)
(***************************************************************************)
DataFrame(columns, rows) == [type |-> "DataFrame", columns |-> columns, rows |-> rows]

RequiredColumns == {"Measure_Cd", "Measure_Desc", "Sheet_Cd"}

\* The items of a sequence, each once, in the order they are first seen.
RECURSIVE FirstSeen(_, _)
FirstSeen(items, seen) ==
    IF items = << >> THEN << >>
    ELSE IF Head(items) \in seen THEN FirstSeen(Tail(items), seen)
    ELSE <<Head(items)>> \o FirstSeen(Tail(items), seen \cup {Head(items)})

\* The records of one Measure_Desc, in the order of the rows.
RECURSIVE GroupOf(_, _)
GroupOf(rows, desc) ==
    IF rows = << >> THEN << >>
    ELSE (IF Head(rows).Measure_Desc = desc THEN <<Head(rows)>> ELSE << >>)
         \o GroupOf(Tail(rows), desc)

\* A group is reported when its records count as having several codes: here,
\* when it has several records.
HasSeveralCodes_CountsRecords(group) == Len(group) > 1

\* A group is reported when more than one distinct Measure_Cd occurs in it.
HasSeveralCodes(group) == Cardinality({group[i].Measure_Cd : i \in DOMAIN group}) > 1

\* The listing of a group: each (Measure_Cd, Sheet_Cd) pair as "code -- sheet".
PairTexts(group) ==
    FirstSeen([i \in DOMAIN group |-> group[i].Measure_Cd \o " -- " \o group[i].Sheet_Cd], {})

RECURSIVE JoinWith(_, _)
JoinWith(texts, separator) ==
    IF texts = << >> THEN ""
    ELSE IF Len(texts) = 1 THEN texts[1]
    ELSE texts[1] \o separator \o JoinWith(Tail(texts), separator)

\* The descriptions whose group is reported.
ReportedDescs(rows) ==
    {desc \in {rows[i].Measure_Desc : i \in DOMAIN rows} : HasSeveralCodes(GroupOf(rows, desc))}

\* The event of one group: the listing, and the batch metadata as it was given.
SameDescEvent(group, metadata) ==
    [Error_Desc |-> PyStr(JoinWith(PairTexts(group), ", ")),
     Batch_Id |-> Lookup(metadata.items, "Batch_Id"),
     Organisation_Cd |-> Lookup(metadata.items, "Organisation_Cd")]

\* descs: the reported descriptions, in the order the grouping gives them.
create_same_desc_diff_boncode_validation_event(df, metadata, descs) ==
    IF df.type # "DataFrame" THEN Raise("ValueError")
    ELSE IF ~IsDict(metadata) THEN Raise("ValueError")
    ELSE IF ~(RequiredColumns \subseteq df.columns) THEN Raise("ValueError")
    ELSE Return([i \in DOMAIN descs |-> SameDescEvent(GroupOf(df.rows, descs[i]), metadata)])

(***************************************************************************)
(* The inputs of the model.                                                *)
(***************************************************************************)
SheetNames == {"Costs", "Totals", "fOut_Costs"}

Formula1 == BoundCell(PyStr("=A1+1"))
Formula2 == BoundCell(PyStr("=A1+2"))
TextA == BoundCell(PyStr("a"))
TextB == BoundCell(PyStr("b"))
Div0 == BoundCell(PyStr("#DIV/0!"))
NotAvailable == BoundCell(PyStr("#N/A"))
\* Cells as a loader can store them: an error cell with any text, with a number or
\* with no value, and a text cell that reads like an error.
ErrorOops == [value |-> PyStr("oops"), data_type |-> "e"]
ErrorNoValue == [value |-> None, data_type |-> "e"]
ErrorNumber == [value |-> PyInt(7), data_type |-> "e"]
TextDiv0 == [value |-> PyStr("#DIV/0!"), data_type |-> "s"]
Number7 == BoundCell(PyInt(7))

\* The worksheets of every shape within the bounds whose cells are among choices.
SheetsOver(title, choices) ==
    UNION {{[title |-> title, max_row |-> r, max_column |-> c, cells |-> cells] :
               cells \in [Box(r, c) -> choices]} :
           <<r, c>> \in Box(MaxRow, MaxCol)}

\* The same, with one cell content everywhere.
UniformSheets(title, choices) ==
    {[title |-> title, max_row |-> p[1], max_column |-> p[2],
      cells |-> [q \in Box(p[1], p[2]) |-> cell]] :
         p \in Box(MaxRow, MaxCol), cell \in choices}

\* A worksheet and the worksheets one stored cell away from it.
Variants(sheet, choices) ==
    {sheet} \cup {WithCell(sheet, p[1], p[2], cell) : p \in Box(MaxRow, MaxCol), cell \in choices}

\* The worksheet with one cell content replaced by another everywhere.
Replaced(sheet, old, new) ==
    [sheet EXCEPT !.cells = [p \in DOMAIN sheet.cells |->
                                IF sheet.cells[p] = old THEN new ELSE sheet.cells[p]]]

Retitled(sheet, title) == [sheet EXCEPT !.title = title]

\* Workbooks of up to MaxSheets empty worksheets with distinct names.
RECURSIVE NameLists(_)
NameLists(n) ==
    IF n = 0 THEN {<< >>}
    ELSE NameLists(n - 1)
         \cup {Append(l, x) : l \in {m \in NameLists(n - 1) : Len(m) = n - 1},
                              x \in SheetNames}

DistinctNameLists == {l \in NameLists(MaxSheets) : Cardinality(Range(l)) = Len(l)}

EmptyWorkbooks == {[i \in DOMAIN l |-> EmptySheet(l[i])] : l \in DistinctNameLists}

\* Worksheets with formulas, a header and error cells, and what a company made of them.
SampleSheet(title) ==
    [title |-> title, max_row |-> 3, max_column |-> 2,
     cells |-> [p \in Box(3, 2) |->
                   IF p[1] = 3 THEN Div0 ELSE IF p[2] = 1 THEN TextA ELSE Formula1]]

ChangedSheet(title) ==
    [title |-> title, max_row |-> 3, max_column |-> 2,
     cells |-> [p \in Box(3, 2) |->
                   IF p[1] = 3 THEN BlankCell
                   ELSE IF p = <<2, 1>> THEN TextB
                   ELSE IF p[2] = 1 THEN TextA ELSE Formula2]]

SampleWorkbooks == {[i \in DOMAIN l |-> SampleSheet(l[i])] : l \in DistinctNameLists}

ChangedWorkbooks ==
    UNION {{[i \in DOMAIN l |-> IF i \in changed THEN ChangedSheet(l[i])
                                ELSE SampleSheet(l[i])] : changed \in SUBSET DOMAIN l}
           : l \in DistinctNameLists}

\* What a caller may hand to a normalizer as input_data.
InputDatas ==
    {None,
     PyDict(EmptyDict),
     PyDict(<<[key |-> "errors", value |-> PyDict(EmptyDict)]>>),
     PyDict(<<[key |-> "errors", value |-> PyDict(<<
         [key |-> "Missing In Spreadsheet 2",
          value |-> PyList(<<PyStr("Costs"), PyStr("Totals")>>)]>>)]>>),
     PyDict(<<[key |-> "errors", value |-> PyDict(<<
         [key |-> "Missing In Spreadsheet 2", value |-> PyInt(7)]>>)]>>),
     PyDict(<<[key |-> "errors", value |-> PyDict(<<
         [key |-> "#DIV/0!", value |-> PyList(<<PyStr("A1"), PyStr("B3")>>)],
         [key |-> "#N/A", value |-> PyList(<<PyStr("A2")>>)]>>)]>>),
     PyDict(<<[key |-> "errors", value |-> PyDict(<<
         [key |-> "A1", value |-> PyList(<<PyStr("Template: =A1+1, Company: =A1+2")>>)],
         [key |-> "B2", value |-> PyInt(7)]>>)]>>)}

\* What a caller may hand to a normalizer as context: a context of its class with
\* at most one field that is not a non-empty string, a context of another class,
\* or no context.
FieldValues == {PyStr("x"), PyStr(""), None, PyInt(7)}

AtMostOneOdd(context) ==
    Cardinality({f \in DOMAIN context \ {"class"} : context[f] # PyStr("x")}) <= 1

NoContext == [class |-> "NoneType"]

MissingSheetContexts ==
    {context \in {MissingSheetContext(a, b, c) : a, b, c \in FieldValues} :
        AtMostOneOdd(context)}
    \cup {NoContext, FormulaErrorSheetContext(PyStr("x"), PyStr("x"), PyStr("x"), PyStr("x"))}

FormulaErrorSheetContexts ==
    {context \in {FormulaErrorSheetContext(a, b, c, d) : a, b, c, d \in FieldValues} :
        AtMostOneOdd(context)}
    \cup {NoContext, MissingSheetContext(PyStr("x"), PyStr("x"), PyStr("x"))}

StructureDiscrepancyContexts ==
    {context \in {StructureDiscrepancyContext(a, b, c, d) : a, b, c, d \in FieldValues} :
        AtMostOneOdd(context)}
    \cup {NoContext, MissingSheetContext(PyStr("x"), PyStr("x"), PyStr("x"))}

FormulaDifferencesContexts ==
    {context \in {FormulaDifferencesContext(a, b, c, d) : a, b, c, d \in FieldValues} :
        AtMostOneOdd(context)}
    \cup {NoContext, MissingSheetContext(PyStr("x"), PyStr("x"), PyStr("x"))}

\* Measure records, and the DataFrames of up to MaxRecords of them.
MeasureRecords ==
    [Measure_Cd : {"A1", "A2"}, Measure_Desc : {"desc1", "desc2"},
     Sheet_Cd : {"sheet1", "sheet2"}]

RECURSIVE RecordLists(_)
RecordLists(n) ==
    IF n = 0 THEN {<< >>}
    ELSE RecordLists(n - 1)
         \cup {Append(l, r) : l \in {m \in RecordLists(n - 1) : Len(m) = n - 1},
                              r \in MeasureRecords}

MeasureFrames ==
    {DataFrame(RequiredColumns, rows) : rows \in RecordLists(MaxRecords)}
    \cup {PyStr("not a dataframe"),
          DataFrame({"Measure_Cd", "Measure_Desc"},
                    <<[Measure_Cd |-> "A1", Measure_Desc |-> "desc1"]>>)}

Metadatas ==
    {PyDict(<<[key |-> "Batch_Id", value |-> PyStr("batch1")],
              [key |-> "Organisation_Cd", value |-> PyStr("org1")]>>),
     PyList(<<PyStr("not"), PyStr("a"), PyStr("dict")>>)}

\* Worksheets of two rows and two columns whose cells A1, B1 and A2 are error
\* cells, each with its error text (#N/A at B1, #DIV/0! at A1 and A2) or with no
\* value, and workbooks of them.
ErrorSheets(title) ==
    {[title |-> title, max_row |-> 2, max_column |-> 2,
      cells |-> [p \in Box(2, 2) |->
                    IF p = <<2, 2>> THEN TextA
                    ELSE IF ~has_text[p] THEN ErrorNoValue
                    ELSE IF p = <<1, 2>> THEN NotAvailable ELSE Div0]] :
         has_text \in [Box(2, 2) \ {<<2, 2>>} -> BOOLEAN]}

RECURSIVE WorkbooksOf(_, _)
WorkbooksOf(names, i) ==
    IF i > Len(names) THEN {<< >>}
    ELSE {<<s>> \o wb : s \in ErrorSheets(names[i]), wb \in WorkbooksOf(names, i + 1)}

ErrorWorkbooks == UNION {WorkbooksOf(l, 1) : l \in DistinctNameLists \ {<< >>}}

\* Worksheets of one row or of two rows, of two columns, with a or b at A1 and a
\* second row that holds a header, another header or nothing; workbooks of them
\* under given names.
ShapeSheets(title) ==
    {[title |-> title, max_row |-> 1, max_column |-> 2,
      cells |-> [p \in Box(1, 2) |-> IF p = <<1, 1>> THEN a1 ELSE TextA]] :
         a1 \in {TextA, TextB}}
    \cup
    {[title |-> title, max_row |-> 2, max_column |-> 2,
      cells |-> [p \in Box(2, 2) |->
                    IF p = <<1, 1>> THEN a1
                    ELSE IF p = <<1, 2>> THEN TextA
                    ELSE IF p = <<2, 1>> THEN a2
                    ELSE IF a2 = BlankCell THEN BlankCell ELSE TextA]] :
         a1 \in {TextA, TextB}, a2 \in {TextA, TextB, BlankCell}}

ShapeWorkbooks(names) ==
    {[i \in DOMAIN names |-> Retitled(f[i], names[i])] :
        f \in [DOMAIN names -> ShapeSheets("")]}

Start ==
    /\ pc = "ready"
    /\ call = [fn |-> "none"]
    /\ result = NoResult
    /\ before = NoResult
    /\ uuid_count = 0

(***************************************************************************)
(* The calls.                                                              *)
(***************************************************************************)
CallValidateTabs ==
    /\ pc = "ready"
    /\ \E list1 \in ListsOf(MissingIn1(wb_template, wb_company)),
          list2 \in ListsOf(MissingIn2(wb_template, wb_company)) :
          result' = Return(validate_tabs_between_spreadsheets(
                               wb_template, wb_company, list1, list2))
    /\ call' = [fn |-> "validate_tabs_between_spreadsheets"]
    /\ pc' = "returned"
    /\ UNCHANGED <<wb_template, wb_company, before, uuid_count>>

CallGetUsedArea ==
    /\ pc = "ready"
    /\ \E i \in DOMAIN wb_template :
          /\ result' = Return(get_used_area(wb_template[i]))
          /\ call' = [fn |-> "get_used_area", sheet |-> wb_template[i], i |-> i]
    /\ pc' = "returned"
    /\ UNCHANGED <<wb_template, wb_company, before, uuid_count>>

CallCheckSheetStructure ==
    /\ pc = "ready"
    /\ \E i \in DOMAIN wb_template, j \in DOMAIN wb_company, h \in 0..MaxRow :
          /\ result' = Return(check_sheet_structure(wb_template[i], wb_company[j], h))
          /\ call' = [fn |-> "check_sheet_structure", sheet1 |-> wb_template[i],
                      sheet2 |-> wb_company[j], header_row_number |-> h, i |-> i, j |-> j]
          /\ wb_template' = [wb_template EXCEPT ![i] = SheetAfterStructureCheck(@, h)]
          /\ wb_company' = [wb_company EXCEPT ![j] = SheetAfterStructureCheck(@, h)]
    /\ pc' = "returned"
    /\ UNCHANGED <<before, uuid_count>>

CallCompareFormulas ==
    /\ pc = "ready"
    /\ \E i \in DOMAIN wb_template, j \in DOMAIN wb_company :
          /\ result' = Return(compare_formulas(wb_template[i], wb_company[j]))
          /\ call' = [fn |-> "compare_formulas", sheet1 |-> wb_template[i],
                      sheet2 |-> wb_company[j], i |-> i, j |-> j]
    /\ pc' = "returned"
    /\ UNCHANGED <<wb_template, wb_company, before, uuid_count>>

CallCheckFormulaErrors ==
    /\ pc = "ready"
    /\ \E j \in DOMAIN wb_company :
          /\ result' = Return(check_formula_errors(wb_company[j]))
          /\ call' = [fn |-> "check_formula_errors", sheet |-> wb_company[j], j |-> j]
    /\ pc' = "returned"
    /\ UNCHANGED <<wb_template, wb_company, before, uuid_count>>

CallFindMissingSheets ==
    /\ pc = "ready"
    /\ \E list1 \in ListsOf(MissingIn1(wb_template, wb_company)),
          list2 \in ListsOf(MissingIn2(wb_template, wb_company)) :
          LET df == find_missing_sheets(wb_template, wb_company, list1, list2, uuid_count)
          IN  /\ result' = df.out
              /\ uuid_count' = df.uuids
    /\ call' = [fn |-> "find_missing_sheets", uuids |-> uuid_count]
    /\ pc' = "returned"
    /\ UNCHANGED <<wb_template, wb_company, before>>

CallCreateDataframeMissingSheets ==
    /\ pc = "ready"
    /\ \E input_data \in InputDatas, context \in MissingSheetContexts :
          LET df == create_dataframe_missing_sheets(input_data, context, uuid_count)
          IN  /\ result' = df.out
              /\ uuid_count' = df.uuids
              /\ call' = [fn |-> "create_dataframe_missing_sheets",
                          input_data |-> input_data, context |-> context,
                          uuids |-> uuid_count]
    /\ pc' = "returned"
    /\ UNCHANGED <<wb_template, wb_company, before>>

CallCreateDataframeFormulaErrors ==
    /\ pc = "ready"
    /\ \E input_data \in InputDatas, context \in FormulaErrorSheetContexts :
          LET df == create_dataframe_formula_errors(input_data, context, uuid_count)
          IN  /\ result' = df.out
              /\ uuid_count' = df.uuids
              /\ call' = [fn |-> "create_dataframe_formula_errors",
                          input_data |-> input_data, context |-> context,
                          uuids |-> uuid_count]
    /\ pc' = "returned"
    /\ UNCHANGED <<wb_template, wb_company, before>>

CallCreateDataframeStructureDiscrepancies ==
    /\ pc = "ready"
    /\ \E input_data \in InputDatas, context \in StructureDiscrepancyContexts :
          LET df == create_dataframe_structure_discrepancies(input_data, context, uuid_count)
          IN  /\ result' = df.out
              /\ uuid_count' = df.uuids
              /\ call' = [fn |-> "create_dataframe_structure_discrepancies",
                          input_data |-> input_data, context |-> context,
                          uuids |-> uuid_count]
    /\ pc' = "returned"
    /\ UNCHANGED <<wb_template, wb_company, before>>

CallCreateDataframeFormulaDifferences ==
    /\ pc = "ready"
    /\ \E input_data \in InputDatas, context \in FormulaDifferencesContexts :
          LET df == create_dataframe_formula_differences(input_data, context, uuid_count)
          IN  /\ result' = df.out
              /\ uuid_count' = df.uuids
              /\ call' = [fn |-> "create_dataframe_formula_differences",
                          input_data |-> input_data, context |-> context,
                          uuids |-> uuid_count]
    /\ pc' = "returned"
    /\ UNCHANGED <<wb_template, wb_company, before>>

CallFindFormulaErrors ==
    /\ pc = "ready"
    /\ \E wb \in {wb_template, wb_company} :
          LET df == find_formula_errors(wb, uuid_count)
          IN  /\ result' = df.out
              /\ uuid_count' = df.uuids
              /\ call' = [fn |-> "find_formula_errors", wb |-> wb, uuids |-> uuid_count]
    /\ pc' = "returned"
    /\ UNCHANGED <<wb_template, wb_company, before>>

CallFindShapeDifferences ==
    /\ pc = "ready"
    /\ \E names \in ListsOf(CommonSheetnames(wb_template, wb_company)) :
          LET df == find_shape_differences(wb_template, wb_company, names, uuid_count)
          IN  /\ result' = df.out
              /\ uuid_count' = df.uuids
              /\ call' = [fn |-> "find_shape_differences", wb_template |-> wb_template,
                          wb_company |-> wb_company, names |-> names,
                          uuids |-> uuid_count]
    /\ wb_template' = WorkbookAfterShapeCheck(wb_template,
                          CommonSheetnames(wb_template, wb_company))
    /\ wb_company' = WorkbookAfterShapeCheck(wb_company,
                         CommonSheetnames(wb_template, wb_company))
    /\ pc' = "returned"
    /\ UNCHANGED before

CallFindFormulaDifferences ==
    /\ pc = "ready"
    /\ \E names \in ListsOf(CommonSheetnames(wb_template, wb_company)) :
          LET df == find_formula_differences(wb_template, wb_company, names, uuid_count)
          IN  /\ result' = df.out
              /\ uuid_count' = df.uuids
              /\ call' = [fn |-> "find_formula_differences", wb_template |-> wb_template,
                          wb_company |-> wb_company, names |-> names,
                          uuids |-> uuid_count]
    /\ pc' = "returned"
    /\ UNCHANGED <<wb_template, wb_company, before>>

CallCreateSameDescDiffBoncodeValidationEvent ==
    /\ pc = "ready"
    /\ \E df \in MeasureFrames, metadata \in Metadatas :
       \E descs \in ListsOf(IF df.type = "DataFrame" /\ RequiredColumns \subseteq df.columns
                            THEN ReportedDescs(df.rows) ELSE {}) :
          /\ result' = create_same_desc_diff_boncode_validation_event(df, metadata, descs)
          /\ call' = [fn |-> "create_same_desc_diff_boncode_validation_event",
                      df |-> df, metadata |-> metadata]
    /\ pc' = "returned"
    /\ UNCHANGED <<wb_template, wb_company, before, uuid_count>>

\* Between two checks, one header cell of one sheet is given another value:
\* ws.cell(row=h, column=c).value = v.
EditHeaderCell ==
    /\ pc = "returned"
    /\ call.fn = "check_sheet_structure"
    /\ call.header_row_number > 0
    /\ \E template \in BOOLEAN, c \in 1..MaxCol, v \in {None, PyStr("a"), PyStr("b")} :
          LET sheet == IF template THEN wb_template[call.i] ELSE wb_company[call.j]
              edited == WithCell(sheet, call.header_row_number, c, BoundCell(v))
          IN  /\ CellAt(sheet, call.header_row_number, c).value # v
              /\ wb_template' = IF template THEN [wb_template EXCEPT ![call.i] = edited]
                                ELSE wb_template
              /\ wb_company' = IF template THEN wb_company
                               ELSE [wb_company EXCEPT ![call.j] = edited]
              /\ call' = [fn |-> call.fn, sheet1 |-> call.sheet1, sheet2 |-> call.sheet2,
                          header_row_number |-> call.header_row_number,
                          i |-> call.i, j |-> call.j,
                          edit |-> [template |-> template, column |-> c,
                                   old |-> CellAt(sheet, call.header_row_number, c).value,
                                   value |-> v]]
    /\ pc' = "edited"
    /\ UNCHANGED <<result, before, uuid_count>>

\* The same check again, on the sheets as they are now.
RepeatCheckSheetStructure ==
    /\ pc = "edited"
    /\ call.fn = "check_sheet_structure"
    /\ result' = Return(check_sheet_structure(wb_template[call.i], wb_company[call.j],
                                              call.header_row_number))
    /\ before' = result
    /\ call' = [call EXCEPT !.sheet1 = wb_template[call.i], !.sheet2 = wb_company[call.j]]
    /\ wb_template' = [wb_template EXCEPT
                          ![call.i] = SheetAfterStructureCheck(@, call.header_row_number)]
    /\ wb_company' = [wb_company EXCEPT
                         ![call.j] = SheetAfterStructureCheck(@, call.header_row_number)]
    /\ pc' = "repeated"
    /\ UNCHANGED uuid_count

\* The same call a second time, on the sheets as the first call left them.
AgainGetUsedArea ==
    /\ pc = "returned"
    /\ call.fn = "get_used_area"
    /\ result' = Return(get_used_area(wb_template[call.i]))
    /\ before' = result
    /\ pc' = "again"
    /\ UNCHANGED <<wb_template, wb_company, call, uuid_count>>

AgainCheckSheetStructure ==
    /\ pc = "returned"
    /\ call.fn = "check_sheet_structure"
    /\ result' = Return(check_sheet_structure(wb_template[call.i], wb_company[call.j],
                                              call.header_row_number))
    /\ before' = result
    /\ wb_template' = [wb_template EXCEPT
                          ![call.i] = SheetAfterStructureCheck(@, call.header_row_number)]
    /\ wb_company' = [wb_company EXCEPT
                         ![call.j] = SheetAfterStructureCheck(@, call.header_row_number)]
    /\ pc' = "again"
    /\ UNCHANGED <<call, uuid_count>>

AgainCompareFormulas ==
    /\ pc = "returned"
    /\ call.fn = "compare_formulas"
    /\ result' = Return(compare_formulas(wb_template[call.i], wb_company[call.j]))
    /\ before' = result
    /\ pc' = "again"
    /\ UNCHANGED <<wb_template, wb_company, call, uuid_count>>

AgainCheckFormulaErrors ==
    /\ pc = "returned"
    /\ call.fn = "check_formula_errors"
    /\ result' = Return(check_formula_errors(wb_company[call.j]))
    /\ before' = result
    /\ pc' = "again"
    /\ UNCHANGED <<wb_template, wb_company, call, uuid_count>>

(***************************************************************************)
(* The comparators on one template sheet and one company sheet.            *)
(***************************************************************************)
Init ==
    /\ Start
    /\ \E s1 \in UniformSheets("Costs", {BlankCell, Formula1, Div0}) :
       \E title \in {"Costs", "Totals"} :
       \E s2 \in Variants(Retitled(s1, title), {BlankCell, Formula2, NotAvailable, TextA}) :
          /\ wb_template = <<s1>>
          /\ wb_company = <<s2>>

Next ==
    \/ CallValidateTabs
    \/ CallGetUsedArea
    \/ CallCheckSheetStructure
    \/ CallCompareFormulas
    \/ CallCheckFormulaErrors

Spec == Init /\ [][Next]_vars

(***************************************************************************)
(* Sheet names: two workbooks of empty worksheets.                         *)
(***************************************************************************)
InitTabs ==
    /\ Start
    /\ wb_template \in EmptyWorkbooks
    /\ wb_company \in EmptyWorkbooks

NextTabs ==
    \/ CallValidateTabs
    \/ CallFindMissingSheets

SpecTabs == InitTabs /\ [][NextTabs]_vars

(***************************************************************************)
(* The used area of one worksheet.                                         *)
(***************************************************************************)
InitArea ==
    /\ Start
    /\ \E s \in SheetsOver("Costs", {BlankCell, TextA}) : wb_template = <<s>>
    /\ wb_company = << >>

NextArea == CallGetUsedArea

SpecArea == InitArea /\ [][NextArea]_vars

(***************************************************************************)
(* The structure of a template sheet and of a company sheet one cell away  *)
(* from it.                                                                *)
(***************************************************************************)
InitStructure ==
    /\ Start
    /\ \E s1 \in SheetsOver("Costs", {BlankCell, TextA}) :
       \E s2 \in Variants(s1, {BlankCell, TextA, TextB}) :
          /\ wb_template = <<s1>>
          /\ wb_company = <<s2>>

NextStructure == CallCheckSheetStructure

SpecStructure == InitStructure /\ [][NextStructure]_vars

(***************************************************************************)
(* A check, a change of one header cell, and the check again.              *)
(***************************************************************************)
NextHeaderEdit ==
    \/ CallCheckSheetStructure
    \/ EditHeaderCell
    \/ RepeatCheckSheetStructure

SpecHeaderEdit == InitStructure /\ [][NextHeaderEdit]_vars

(***************************************************************************)
(* The formulas of a template sheet and of a company sheet that holds the  *)
(* same formulas or other ones, one cell apart.                            *)
(***************************************************************************)
InitFormulas ==
    /\ Start
    /\ \E s1 \in SheetsOver("Costs", {TextA, Formula1}) :
       \E s \in {s1, Replaced(s1, Formula1, Formula2)} :
       \E s2 \in Variants(s, {Formula1, Formula2, Number7}) :
          /\ wb_template = <<s1>>
          /\ wb_company = <<s2>>

NextFormulas == CallCompareFormulas

SpecFormulas == InitFormulas /\ [][NextFormulas]_vars

(***************************************************************************)
(* The error cells of one sheet.                                           *)
(***************************************************************************)
InitErrors ==
    /\ Start
    /\ wb_template = << >>
    /\ \E s0 \in SheetsOver("Costs", {BlankCell, Div0}) :
       \E s \in Variants(s0, {NotAvailable, ErrorOops, ErrorNoValue, ErrorNumber, TextDiv0}) :
          wb_company = <<s>>

NextErrors == CallCheckFormulaErrors

SpecErrors == InitErrors /\ [][NextErrors]_vars

(***************************************************************************)
(* The normalizers, on what a caller may hand them.                        *)
(***************************************************************************)
InitNormalizers ==
    /\ Start
    /\ wb_template = << >>
    /\ wb_company = << >>

NextNormalizers ==
    \/ CallCreateDataframeMissingSheets
    \/ CallCreateDataframeFormulaErrors
    \/ CallCreateDataframeStructureDiscrepancies
    \/ CallCreateDataframeFormulaDifferences

SpecNormalizers == InitNormalizers /\ [][NextNormalizers]_vars

(***************************************************************************)
(* Everything that makes events: the normalizers, and the orchestrators on *)
(* a template workbook and a company workbook.                             *)
(***************************************************************************)
InitEvents ==
    /\ Start
    /\ wb_template \in SampleWorkbooks
    /\ wb_company \in ChangedWorkbooks

NextEvents ==
    \/ CallCreateDataframeMissingSheets
    \/ CallCreateDataframeFormulaErrors
    \/ CallCreateDataframeStructureDiscrepancies
    \/ CallCreateDataframeFormulaDifferences
    \/ CallFindMissingSheets
    \/ CallFindFormulaErrors
    \/ CallFindShapeDifferences
    \/ CallFindFormulaDifferences

SpecEvents == InitEvents /\ [][NextEvents]_vars

(***************************************************************************)
(* The measure records of a batch.                                         *)
(***************************************************************************)
InitMeasures ==
    /\ Start
    /\ wb_template = << >>
    /\ wb_company = << >>

NextMeasures == CallCreateSameDescDiffBoncodeValidationEvent

SpecMeasures == InitMeasures /\ [][NextMeasures]_vars

(***************************************************************************)
(* Each comparator called twice on the same sheets.                        *)
(***************************************************************************)
NextRepeat ==
    \/ CallGetUsedArea
    \/ CallCheckSheetStructure
    \/ CallCompareFormulas
    \/ CallCheckFormulaErrors
    \/ AgainGetUsedArea
    \/ AgainCheckSheetStructure
    \/ AgainCompareFormulas
    \/ AgainCheckFormulaErrors

SpecRepeat == InitStructure /\ [][NextRepeat]_vars

(***************************************************************************)
(* The formulas of a common sheet of two workbooks, whose company version  *)
(* may hold other formulas and may have other dimensions.                  *)
(***************************************************************************)
InitDifferences ==
    /\ Start
    /\ \E s1 \in UniformSheets("Costs", {Formula1, TextA}) :
       \E s \in {s1, Replaced(s1, Formula1, Formula2)} :
       \E s2 \in Variants(s, {Formula2, BlankCell}) :
          /\ wb_template = <<s1>>
          /\ wb_company = <<s2>>

NextDifferences ==
    \/ CallCompareFormulas
    \/ CallFindFormulaDifferences

SpecDifferences == InitDifferences /\ [][NextDifferences]_vars

(***************************************************************************)
(* The formula errors of a whole workbook.                                 *)
(***************************************************************************)
InitErrorEvents ==
    /\ Start
    /\ wb_template = << >>
    /\ wb_company \in ErrorWorkbooks

NextErrorEvents == CallFindFormulaErrors

SpecErrorEvents == InitErrorEvents /\ [][NextErrorEvents]_vars

(***************************************************************************)
(* The shape differences of two workbooks whose common sheets are a sheet  *)
(* named "fOut_...", a sheet of another name, both or neither.             *)
(***************************************************************************)
InitShapes ==
    /\ Start
    /\ wb_template \in ShapeWorkbooks(<<"Costs", "fOut_Costs">>)
                           \cup ShapeWorkbooks(<<"fOut_Costs", "Totals">>)
    /\ wb_company \in ShapeWorkbooks(<<"fOut_Costs", "Costs">>)
                          \cup ShapeWorkbooks(<<"Costs", "Totals">>)

NextShapes == CallFindShapeDifferences

SpecShapes == InitShapes /\ [][NextShapes]_vars

(***************************************************************************)
(* What the properties say of a worksheet, stated without the code's loops.*)
(***************************************************************************)
NameSet(wb) == {wb[i].title : i \in DOMAIN wb}

HasNoValue(sheet) == \A p \in DOMAIN sheet.cells : sheet.cells[p].value = None

\* The last row, and the last column, that holds a value: 0 when none does.
UsedRows(sheet) ==
    IF HasNoValue(sheet) THEN 0
    ELSE CHOOSE r \in 1..sheet.max_row :
            /\ \E c \in 1..sheet.max_column : sheet.cells[<<r, c>>].value # None
            /\ \A q \in DOMAIN sheet.cells : q[1] > r => sheet.cells[q].value = None

UsedColumns(sheet) ==
    IF HasNoValue(sheet) THEN 0
    ELSE CHOOSE c \in 1..sheet.max_column :
            /\ \E r \in 1..sheet.max_row : sheet.cells[<<r, c>>].value # None
            /\ \A q \in DOMAIN sheet.cells : q[2] > c => sheet.cells[q].value = None

\* The value a reader finds at a position: None where the sheet holds no cell.
ValueAt(sheet, row, col) ==
    IF row \in 1..sheet.max_row /\ col \in 1..sheet.max_column
    THEN sheet.cells[<<row, col>>].value
    ELSE None

SameShape(sheet1, sheet2) ==
    /\ sheet1.max_row = sheet2.max_row
    /\ sheet1.max_column = sheet2.max_column
    /\ UsedRows(sheet1) = UsedRows(sheet2)
    /\ UsedColumns(sheet1) = UsedColumns(sheet2)

SameHeader(sheet1, sheet2, h) ==
    h > 0 => \A c \in 1..UsedColumns(sheet1) : ValueAt(sheet1, h, c) = ValueAt(sheet2, h, c)

SingleRowOrColumn(sheet) == sheet.max_row = 1 \/ sheet.max_column = 1
OneByOne(sheet) == sheet.max_row = 1 /\ sheet.max_column = 1

Returned(fn) == pc = "returned" /\ call.fn = fn

(***************************************************************************)
(* The properties.                                                         *)
(***************************************************************************)

\* C1: for every pair of workbooks, validate_tabs_between_spreadsheets returns
\* status "Ok" exactly when the two sets of sheet names are equal, whatever the
\* order of the sheets, and its errors are empty exactly when the status is "Ok".
C1_TabsOkIffSameNames ==
    Returned("validate_tabs_between_spreadsheets") =>
        /\ (result.value.status = "Ok") <=> (NameSet(wb_template) = NameSet(wb_company))
        /\ (result.value.errors = EmptyDict) <=> (result.value.status = "Ok")

\* C1, reached: "Ok" for two workbooks that hold the same two names in different order.
C1_Witness ==
    /\ Returned("validate_tabs_between_spreadsheets")
    /\ Len(wb_template) = 2
    /\ sheetnames(wb_template) # sheetnames(wb_company)
    /\ result.value.status = "Ok"

Comparators ==
    {"validate_tabs_between_spreadsheets", "check_sheet_structure",
     "compare_formulas", "check_formula_errors"}

\* C2, as claimed: every result of every comparator has status "Ok" exactly when
\* its errors are empty.
C2_Original ==
    (pc = "returned" /\ call.fn \in Comparators) =>
        ((result.value.status = "Ok") <=> (result.value.errors = EmptyDict))

DimensionsDiffer(sheet1, sheet2) ==
    <<sheet1.max_row, sheet1.max_column>> # <<sheet2.max_row, sheet2.max_column>>

\* C2, amended: every result of every comparator has status "Ok" exactly when its
\* errors are empty, except that compare_formulas, given two sheets whose nominal
\* (rows, columns) differ, returns status "Error" with empty errors.
C2_OkIffNoErrorsButDimensions ==
    (pc = "returned" /\ call.fn \in Comparators) =>
        IF call.fn = "compare_formulas" /\ DimensionsDiffer(call.sheet1, call.sheet2)
        THEN result.value.status = "Error" /\ result.value.errors = EmptyDict
        ELSE (result.value.status = "Ok") <=> (result.value.errors = EmptyDict)

\* C2, reached: compare_formulas has returned for two sheets of formulas whose
\* dimensions differ.
C2_Witness ==
    /\ Returned("compare_formulas")
    /\ DimensionsDiffer(call.sheet1, call.sheet2)
    /\ call.sheet1.cells[<<1, 1>>] = Formula1
    /\ \E p \in DOMAIN call.sheet2.cells : call.sheet2.cells[p] = Formula2

\* C3, as claimed: for a sheet in which no cell has a value, get_used_area returns
\* empty_rows = nominal rows - 1, empty_columns = nominal columns - 1 and
\* last_used_row = last_used_column = 1.
C3_Original ==
    (Returned("get_used_area") /\ HasNoValue(call.sheet)) =>
        /\ result.value.empty_rows = call.sheet.max_row - 1
        /\ result.value.empty_columns = call.sheet.max_column - 1
        /\ result.value.last_used_row = 1
        /\ result.value.last_used_column = 1

\* C3, amended: for a sheet in which no cell has a value, get_used_area returns
\* empty_rows = nominal rows, empty_columns = nominal columns and
\* last_used_row = last_used_column = 0.
C3_EmptySheetUsesNothing ==
    (Returned("get_used_area") /\ HasNoValue(call.sheet)) =>
        /\ result.value.empty_rows = call.sheet.max_row
        /\ result.value.empty_columns = call.sheet.max_column
        /\ result.value.last_used_row = 0
        /\ result.value.last_used_column = 0

\* C3, reached: get_used_area has returned for a sheet of several rows and columns
\* in which no cell has a value.
C3_Witness ==
    /\ Returned("get_used_area")
    /\ HasNoValue(call.sheet)
    /\ call.sheet.max_row > 1
    /\ call.sheet.max_column > 1

C4_Precondition ==
    /\ Returned("check_sheet_structure")
    /\ SameShape(call.sheet1, call.sheet2)
    /\ SameHeader(call.sheet1, call.sheet2, call.header_row_number)

HasEntry(res, key) == \E i \in DOMAIN res.value.errors : res.value.errors[i].key = key

EntryOf(res, key) ==
    res.value.errors[CHOOSE i \in DOMAIN res.value.errors : res.value.errors[i].key = key].value

\* The text of a value between the brackets of a message.
Shown(v) == IF v = None THEN "None" ELSE IF v.type = "str" THEN v.s ELSE ToString(v.n)

\* The "Header Mismatch" message that names column c of the two sheets.
MismatchNaming(c, sheet1, sheet2, h) ==
    "Column " \o ToString(c) \o ": Template: [" \o Shown(ValueAt(sheet1, h, c))
    \o "] != [" \o Shown(ValueAt(sheet2, h, c)) \o "] :Company"

\* C5: from two sheets for which the check with a header row h > 0 returns "Ok",
\* changing the value of one header cell that holds a value (row h, column c) of one
\* sheet makes the check report exactly one "Header Mismatch" entry, naming column c.
C5_OneChangeOneMismatch ==
    (pc = "repeated" /\ call.fn = "check_sheet_structure"
        /\ before.value.status = "Ok" /\ call.edit.old # None) =>
        /\ HasEntry(result, "Header Mismatch")
        /\ EntryOf(result, "Header Mismatch") =
               <<MismatchNaming(call.edit.column, call.sheet1, call.sheet2,
                                call.header_row_number)>>

\* The address of a position: column letter, then row number (columns up to Z).
Address(p) ==
    <<"A", "B", "C", "D", "E", "F", "G", "H", "I", "J", "K", "L", "M",
      "N", "O", "P", "Q", "R", "S", "T", "U", "V", "W", "X", "Y", "Z">>[p[2]]
    \o ToString(p[1])

\* A text of the model that begins with "=".
IsFormulaText(v) == v.type = "str" /\ v.s \in {"=A1+1", "=A1+2"}

\* The positions where both sheets hold a formula and the two formulas differ.
DifferingFormulas(sheet1, sheet2) ==
    {p \in DOMAIN sheet1.cells :
        /\ IsFormulaText(sheet1.cells[p].value)
        /\ IsFormulaText(sheet2.cells[p].value)
        /\ sheet1.cells[p].value.s # sheet2.cells[p].value.s}

\* The positions where exactly one of the two sheets holds a formula.
OneSidedFormulas(sheet1, sheet2) ==
    {p \in DOMAIN sheet1.cells :
        IsFormulaText(sheet1.cells[p].value) # IsFormulaText(sheet2.cells[p].value)}

\* C6: for two sheets with equal nominal (rows, columns), the errors of
\* compare_formulas have a key, column letter and row number, exactly for the
\* positions where both cells hold a text beginning with "=" and the texts differ;
\* each key holds exactly one message; a position where only one cell is a formula
\* gives no key; and the status is "Error" exactly when there is a key.
C6_KeysAreTheDifferingFormulas ==
    (Returned("compare_formulas") /\ ~DimensionsDiffer(call.sheet1, call.sheet2)) =>
        LET differing == DifferingFormulas(call.sheet1, call.sheet2)
            errors == result.value.errors
        IN  /\ {errors[i].key : i \in DOMAIN errors} = {Address(p) : p \in differing}
            /\ Len(errors) = Cardinality(differing)
            /\ \A i \in DOMAIN errors : Len(errors[i].value) = 1
            /\ (result.value.status = "Error") <=> (differing # {})

\* C6, reached: compare_formulas has returned for two sheets of equal dimensions
\* with two positions whose formulas differ and a position where only one is a formula.
C6_Witness ==
    /\ Returned("compare_formulas")
    /\ ~DimensionsDiffer(call.sheet1, call.sheet2)
    /\ Cardinality(DifferingFormulas(call.sheet1, call.sheet2)) >= 2
    /\ OneSidedFormulas(call.sheet1, call.sheet2) # {}
    /\ Len(result.value.errors) = Cardinality(DifferingFormulas(call.sheet1, call.sheet2))

\* The errors group the cells of a set by their text: one key per text, each key
\* listing once the address of each cell of the set with that text, every cell of
\* the set listed, and the status "Error" exactly when the set is not empty.
GroupsByText(res, sheet, cells) ==
    LET errors == res.errors
        text(p) == sheet.cells[p].value
    IN  /\ \A i, j \in DOMAIN errors : errors[i].key = errors[j].key => i = j
        /\ \A i \in DOMAIN errors :
              LET with == {p \in cells : text(p).type = "str" /\ text(p).s = errors[i].key}
              IN  /\ with # {}
                  /\ {errors[i].value[k] : k \in DOMAIN errors[i].value}
                         = {Address(p) : p \in with}
                  /\ Len(errors[i].value) = Cardinality(with)
        /\ \A p \in cells : \E i \in DOMAIN errors :
              \E k \in DOMAIN errors[i].value : errors[i].value[k] = Address(p)
        /\ (res.status = "Error") <=> (cells # {})

TaggedError(sheet) == {p \in DOMAIN sheet.cells : sheet.cells[p].data_type = "e"}

TaggedErrorWithText(sheet) ==
    {p \in DOMAIN sheet.cells :
        sheet.cells[p].data_type = "e" /\ sheet.cells[p].value.type = "str"}

\* C7, as claimed: check_formula_errors counts every cell tagged evaluated-error,
\* whatever its value: one key per error text, each key listing exactly the error
\* cells with that text, every error cell listed once, status "Error" exactly when
\* some cell is tagged evaluated-error.
C7_Original ==
    Returned("check_formula_errors") =>
        GroupsByText(result.value, call.sheet, TaggedError(call.sheet))

\* C7, amended: check_formula_errors counts every cell tagged evaluated-error whose
\* value is a text, whatever the text: one key per error text, each key listing
\* exactly the error cells with that text, every such cell listed once, status
\* "Error" exactly when there is such a cell; an error cell whose value is not a
\* text is not counted.
C7_GroupsErrorCellsWithText ==
    Returned("check_formula_errors") =>
        GroupsByText(result.value, call.sheet, TaggedErrorWithText(call.sheet))

\* C7, reached: one #DIV/0! cell at B3 has given errors = {"#DIV/0!": ["B3"]}.
C7_Witness ==
    /\ Returned("check_formula_errors")
    /\ TaggedError(call.sheet) = {<<3, 2>>}
    /\ call.sheet.cells[<<3, 2>>].value = PyStr("#DIV/0!")
    /\ result.value.errors = <<[key |-> "#DIV/0!", value |-> <<"B3">>]>>

\* C8: find_missing_sheets returns exactly one event for each sheet name the
\* template has and the company lacks, with that name as Sheet_Cd, "Missing Sheet"
\* as Error_Desc and no Cell_Reference field; a sheet only the company has gives none.
C8_OneEventPerSheetTheCompanyLacks ==
    Returned("find_missing_sheets") =>
        /\ ~Raised(result)
        /\ LET lacking == NameSet(wb_template) \ NameSet(wb_company)
               events == result.value
           IN  /\ Len(events) = Cardinality(lacking)
               /\ {events[i].Sheet_Cd : i \in DOMAIN events} = {PyStr(n) : n \in lacking}
               /\ \A i \in DOMAIN events :
                     /\ events[i].Error_Desc = PyStr("Missing Sheet")
                     /\ "Cell_Reference" \notin DOMAIN events[i]

\* C8, reached: two events for the two sheets the company lacks, and none for the
\* sheet only the company has.
C8_Witness ==
    /\ Returned("find_missing_sheets")
    /\ ~Raised(result)
    /\ Len(result.value) = 2
    /\ NameSet(wb_company) \ NameSet(wb_template) # {}

Normalizers ==
    {"create_dataframe_missing_sheets", "create_dataframe_formula_errors",
     "create_dataframe_structure_discrepancies", "create_dataframe_formula_differences"}

Orchestrators ==
    {"find_missing_sheets", "find_formula_errors", "find_shape_differences",
     "find_formula_differences"}

\* C9: in the events a normalizer or an orchestrator returns from one call, every
\* Event_Id is a non-empty text and no two events share an Event_Id, the events of
\* different sheets an orchestrator concatenates included.
C9_EventIdsAreDistinct ==
    (pc = "returned" /\ call.fn \in Normalizers \cup Orchestrators /\ ~Raised(result)) =>
        LET events == result.value
        IN  /\ \A i \in DOMAIN events :
                  events[i].Event_Id.type = "str" /\ events[i].Event_Id.s # ""
            /\ \A i, j \in DOMAIN events :
                  events[i].Event_Id = events[j].Event_Id => i = j

\* C9, reached: find_formula_errors has returned four events, of two sheets.
C9_Witness ==
    /\ Returned("find_formula_errors")
    /\ ~Raised(result)
    /\ Len(result.value) = 4
    /\ Cardinality({result.value[i].Sheet_Cd : i \in DOMAIN result.value}) = 2
    /\ Cardinality({result.value[i].Event_Id : i \in DOMAIN result.value}) = 4

\* The context class of each normalizer.
ContextClassOf(fn) ==
    CASE fn = "create_dataframe_missing_sheets" -> "MissingSheetContext"
      [] fn = "create_dataframe_formula_errors" -> "FormulaErrorSheetContext"
      [] fn = "create_dataframe_structure_discrepancies" -> "StructureDiscrepancyContext"
      [] fn = "create_dataframe_formula_differences" -> "FormulaDifferencesContext"

\* The arguments a normalizer is to accept: a mapping, and a context of its own
\* class whose every field is a non-empty text.
ValidArguments(fn, input_data, context) ==
    /\ input_data.type = "dict"
    /\ context.class = ContextClassOf(fn)
    /\ \A f \in DOMAIN context \ {"class"} : context[f].type = "str" /\ context[f].s # ""

\* C10: each of the four normalizers fails, returning no events, whenever input_data
\* is not a mapping, the context is not of its own context class, or some context
\* field is not a non-empty text, whatever input_data holds, empty errors included.
C10_InvalidArgumentsFail ==
    (pc = "returned" /\ call.fn \in Normalizers
        /\ ~ValidArguments(call.fn, call.input_data, call.context)) =>
        Raised(result)

\* C11: when the template and the company workbooks, each with at least one sheet,
\* have no sheet name in common, find_shape_differences and find_formula_differences
\* both return, without failing, an empty collection of events.
C11_NoCommonSheetGivesNoEvents ==
    (pc = "returned"
        /\ call.fn \in {"find_shape_differences", "find_formula_differences"}
        /\ call.wb_template # << >> /\ call.wb_company # << >>
        /\ NameSet(call.wb_template) \cap NameSet(call.wb_company) = {}) =>
        result = Return(<< >>)

\* The rows of a description, by position.
RowsOf(rows, desc) == {i \in DOMAIN rows : rows[i].Measure_Desc = desc}

PairText(r) == r.Measure_Cd \o " -- " \o r.Sheet_Cd

\* The position at which a "code -- sheet" text is first seen among the rows of desc.
FirstRowOf(rows, desc, text) ==
    CHOOSE i \in RowsOf(rows, desc) :
        /\ PairText(rows[i]) = text
        /\ \A j \in RowsOf(rows, desc) : PairText(rows[j]) = text => i <= j

\* The listing expected for a description: its pairs, each once, by first row.
ExpectedListing(rows, desc) ==
    CHOOSE l \in ListsOf({PairText(rows[i]) : i \in RowsOf(rows, desc)}) :
        \A a, b \in DOMAIN l :
            a < b => FirstRowOf(rows, desc, l[a]) < FirstRowOf(rows, desc, l[b])

SeveralCodes(rows, desc) ==
    Cardinality({rows[i].Measure_Cd : i \in RowsOf(rows, desc)}) > 1

\* C12: create_same_desc_diff_boncode_validation_event returns exactly one event
\* for each Measure_Desc group with more than one distinct Measure_Cd, whose
\* Error_Desc lists every (Measure_Cd, Sheet_Cd) pair of the group as "code -- sheet"
\* in first-seen order, and no event for a group with a single code; so rows with
\* all-distinct descriptions, and no rows, give an empty collection.
C12_OneEventPerDescWithSeveralCodes ==
    (Returned("create_same_desc_diff_boncode_validation_event") /\ ~Raised(result)) =>
        LET rows == call.df.rows
            several == {desc \in {rows[i].Measure_Desc : i \in DOMAIN rows} :
                           SeveralCodes(rows, desc)}
            events == result.value
        IN  /\ Len(events) = Cardinality(several)
            /\ \E order \in ListsOf(several) :
                  \A i \in DOMAIN events :
                      events[i].Error_Desc
                          = PyStr(JoinWith(ExpectedListing(rows, order[i]), ", "))
            /\ (several = {}) => events = << >>

\* C12, reached: of three records, two share a description under two codes and one
\* stands alone; exactly one event is returned, listing the two pairs in order.
C12_Witness ==
    /\ Returned("create_same_desc_diff_boncode_validation_event")
    /\ ~Raised(result)
    /\ call.df.rows = <<[Measure_Cd |-> "A2", Measure_Desc |-> "desc1", Sheet_Cd |-> "sheet2"],
                        [Measure_Cd |-> "A1", Measure_Desc |-> "desc2", Sheet_Cd |-> "sheet1"],
                        [Measure_Cd |-> "A1", Measure_Desc |-> "desc1", Sheet_Cd |-> "sheet1"]>>
    /\ Len(result.value) = 1
    /\ result.value[1].Error_Desc = PyStr("A2 -- sheet2, A1 -- sheet1")

\* C13: a call to get_used_area, check_sheet_structure (whatever its
\* header_row_number), compare_formulas or check_formula_errors leaves every sheet
\* as it was, nominal rows and columns and cell values, and the same call made a
\* second time returns what the first returned.
C13_CallsLeaveSheetsUnchanged ==
    [][/\ (pc = "ready" /\ pc' = "returned") =>
              (wb_template' = wb_template /\ wb_company' = wb_company)
       /\ (pc = "returned" /\ pc' = "again") => result' = result]_vars

\* The number of rows at the end of the sheet without any value: the longest run,
\* counted upward from the last nominal row, that stops at the first row with a value.
TrailingEmptyRows(sheet) ==
    CHOOSE k \in 0..sheet.max_row :
        /\ \A r \in (sheet.max_row - k + 1)..sheet.max_row :
              \A c \in 1..sheet.max_column : sheet.cells[<<r, c>>].value = None
        /\ k < sheet.max_row =>
              \E c \in 1..sheet.max_column : sheet.cells[<<sheet.max_row - k, c>>].value # None

TrailingEmptyColumns(sheet) ==
    CHOOSE k \in 0..sheet.max_column :
        /\ \A c \in (sheet.max_column - k + 1)..sheet.max_column :
              \A r \in 1..sheet.max_row : sheet.cells[<<r, c>>].value = None
        /\ k < sheet.max_column =>
              \E r \in 1..sheet.max_row : sheet.cells[<<r, sheet.max_column - k>>].value # None

\* C14: for every sheet, get_used_area returns as empty_rows the length of the
\* longest run of rows without any value counted upward from the last nominal row,
\* as empty_columns the same for columns counted leftward, last_used_row =
\* nominal rows - empty_rows and last_used_column = nominal columns - empty_columns;
\* a sheet without any value gives last_used_row = last_used_column = 0.
C14_UsedAreaEndsAtLastValue ==
    Returned("get_used_area") =>
        /\ result.value.empty_rows = TrailingEmptyRows(call.sheet)
        /\ result.value.empty_columns = TrailingEmptyColumns(call.sheet)
        /\ result.value.last_used_row = call.sheet.max_row - result.value.empty_rows
        /\ result.value.last_used_column
               = call.sheet.max_column - result.value.empty_columns
        /\ HasNoValue(call.sheet) =>
               (result.value.last_used_row = 0 /\ result.value.last_used_column = 0)

\* C14, reached: a sheet of three rows and two columns whose first row is empty,
\* whose second row holds a value in its second column only and whose third row is
\* empty: one empty row, no empty column, last used row 2.
C14_Witness ==
    /\ Returned("get_used_area")
    /\ call.sheet.max_row = 3 /\ call.sheet.max_column = 2
    /\ {p \in DOMAIN call.sheet.cells : call.sheet.cells[p].value # None} = {<<2, 2>>}
    /\ result.value = [empty_rows |-> 1, empty_columns |-> 0,
                       last_used_row |-> 2, last_used_column |-> 2]

\* The titles expected under "Empty Sheet": template first, then company.
ExpectedEmptySheets(sheet1, sheet2) ==
    IF OneByOne(sheet1) /\ OneByOne(sheet2) THEN << >>
    ELSE (IF SingleRowOrColumn(sheet1) THEN <<sheet1.title>> ELSE << >>)
         \o (IF SingleRowOrColumn(sheet2) THEN <<sheet2.title>> ELSE << >>)

\* Some position that both header rows have holds different values.
HeadersDifferAtSharedPosition(sheet1, sheet2, h) ==
    /\ h > 0
    /\ \E c \in 1..Min(UsedColumns(sheet1), UsedColumns(sheet2)) :
          ValueAt(sheet1, h, c) # ValueAt(sheet2, h, c)

DifferingHeaderPositions(sheet1, sheet2, h) ==
    {c \in 1..Max(UsedColumns(sheet1), UsedColumns(sheet2)) :
        \/ c > Min(UsedColumns(sheet1), UsedColumns(sheet2))
        \/ ValueAt(sheet1, h, c) # ValueAt(sheet2, h, c)}

\* The k-th smallest member of a set of numbers.
Nth(numbers, k) == CHOOSE c \in numbers : Cardinality({d \in numbers : d < c}) = k - 1

\* The messages "Column c: ..." a "Header Mismatch" entry can hold for column c.
MessagesFor(c) ==
    {"Column " \o ToString(c) \o ": Template: [" \o v1 \o "] != [" \o v2 \o "] :Company" :
        v1, v2 \in {"None", "a", "b"}}

\* C16: with header_row_number > 0 the "Header Mismatch" list of
\* check_sheet_structure holds exactly one entry "Column i: ..." for every position
\* i at which the two headers (columns 1..last used column of each sheet) differ,
\* a position only one header has counting as differing, in ascending order of i;
\* with header_row_number = 0 there is never a "Header Mismatch" entry.
C16_OneEntryPerDifferingPosition ==
    Returned("check_sheet_structure") =>
        LET differing == DifferingHeaderPositions(call.sheet1, call.sheet2,
                                                  call.header_row_number)
        IN  IF call.header_row_number = 0 THEN ~HasEntry(result, "Header Mismatch")
            ELSE /\ HasEntry(result, "Header Mismatch") <=> (differing # {})
                 /\ HasEntry(result, "Header Mismatch") =>
                       LET entries == EntryOf(result, "Header Mismatch")
                       IN  /\ Len(entries) = Cardinality(differing)
                           /\ \A k \in DOMAIN entries :
                                 entries[k] \in MessagesFor(Nth(differing, k))

\* The sheet of a workbook with a given name.
Named(wb, name) == wb[CHOOSE i \in DOMAIN wb : wb[i].title = name]

\* C17: when the nominal (rows, columns) of the two sheets differ, compare_formulas
\* returns status "Error" with empty errors whatever the cells hold, and
\* find_formula_differences returns no event for a common sheet whose two versions
\* differ in their nominal (rows, columns).
C17_DifferentDimensionsGiveNoErrors ==
    /\ (Returned("compare_formulas") /\ DimensionsDiffer(call.sheet1, call.sheet2)) =>
           (result.value.status = "Error" /\ result.value.errors = EmptyDict)
    /\ Returned("find_formula_differences") =>
           \A name \in NameSet(call.wb_template) \cap NameSet(call.wb_company) :
               DimensionsDiffer(Named(call.wb_template, name), Named(call.wb_company, name))
                   => /\ ~Raised(result)
                      /\ \A i \in DOMAIN result.value :
                            result.value[i].Sheet_Cd # PyStr(name)

\* C17, reached: find_formula_differences has returned no event for a common sheet
\* whose company version has other dimensions and another formula in A1.
C17_Witness ==
    /\ Returned("find_formula_differences")
    /\ DimensionsDiffer(call.wb_template[1], call.wb_company[1])
    /\ call.wb_template[1].cells[<<1, 1>>] = Formula1
    /\ call.wb_company[1].cells[<<1, 1>>] = Formula2
    /\ result = Return(<< >>)

\* The errors mapping of an input_data, empty when it has none.
ErrorsOf(input_data) ==
    IF \E i \in DOMAIN input_data.items : input_data.items[i].key = "errors"
    THEN input_data.items[CHOOSE i \in DOMAIN input_data.items :
                              input_data.items[i].key = "errors"].value.items
    ELSE << >>

\* An errors mapping as a scanner gives it: every key with a list of texts.
ListsOfTexts(errors) ==
    \A k \in DOMAIN errors :
        /\ errors[k].value.type = "list"
        /\ \A d \in DOMAIN errors[k].value.items : errors[k].value.items[d].type = "str"

\* The (key, detail) pairs of an errors mapping, by position.
Pairs(errors) ==
    UNION {{<<k, d>> : d \in DOMAIN errors[k].value.items} : k \in DOMAIN errors}

KeyOf(errors, p) == PyStr(errors[p[1]].key)
DetailOf(errors, p) == errors[p[1]].value.items[p[2]]

C18_Precondition ==
    /\ Returned("create_dataframe_formula_errors")
    /\ ~Raised(result)
    /\ ListsOfTexts(ErrorsOf(call.input_data))

\* C18, as claimed: create_dataframe_formula_errors returns one event per
\* (key, detail) pair of the errors mapping of the formula-error scanner, and the
\* Error_Desc of each event is the detail of its pair.
C18_Original ==
    C18_Precondition =>
        LET errors == ErrorsOf(call.input_data)
        IN  \E pairs \in ListsOf(Pairs(errors)) :
                /\ Len(pairs) = Len(result.value)
                /\ \A i \in DOMAIN pairs :
                      result.value[i].Error_Desc = DetailOf(errors, pairs[i])

\* C18, amended: create_dataframe_formula_errors returns one event per
\* (key, detail) pair of the errors mapping of the formula-error scanner; the
\* Cell_Reference of each event is the detail of its pair (the cell address) and
\* its Error_Desc is the key of its pair (the error text).
C18_OneEventPerErrorCell ==
    C18_Precondition =>
        LET errors == ErrorsOf(call.input_data)
        IN  \E pairs \in ListsOf(Pairs(errors)) :
                /\ Len(pairs) = Len(result.value)
                /\ \A i \in DOMAIN pairs :
                      /\ result.value[i].Cell_Reference = DetailOf(errors, pairs[i])
                      /\ result.value[i].Error_Desc = KeyOf(errors, pairs[i])

\* C18, reached: the errors {"#DIV/0!": ["A1", "B3"], "#N/A": ["A2"]} have given
\* three events, the first for "#DIV/0!" at A1.
C18_Witness ==
    /\ C18_Precondition
    /\ Len(ErrorsOf(call.input_data)) = 2
    /\ Len(result.value) = 3
    /\ result.value[1].Error_Desc = PyStr("#DIV/0!")
    /\ result.value[1].Cell_Reference = PyStr("A1")

\* The details of a key, joined with " -- " in list order.
Joined(details) == PyStr(JoinWith([d \in DOMAIN details |-> details[d].s], " -- "))

\* C19: create_dataframe_structure_discrepancies and
\* create_dataframe_formula_differences each return exactly one event per key of
\* the errors mapping, in the order of the keys, whose Error_Desc is the details of
\* the key joined with " -- " in list order; the event of a formula difference has
\* the key as Cell_Reference, the event of a structure discrepancy has no
\* Cell_Reference field.
C19_OneEventPerKey ==
    (pc = "returned" /\ ~Raised(result)
        /\ call.fn \in {"create_dataframe_structure_discrepancies",
                        "create_dataframe_formula_differences"}) =>
        LET errors == ErrorsOf(call.input_data)
            events == result.value
        IN  /\ Len(events) = Len(errors)
            /\ \A k \in DOMAIN events :
                  /\ events[k].Error_Desc = Joined(errors[k].value.items)
                  /\ IF call.fn = "create_dataframe_formula_differences"
                     THEN events[k].Cell_Reference = PyStr(errors[k].key)
                     ELSE "Cell_Reference" \notin DOMAIN events[k]

\* C19, reached: from errors of two keys, the first with two details,
\* create_dataframe_formula_differences has returned two events, the first with the
\* two details joined and the key as Cell_Reference.
C19_Witness ==
    /\ Returned("create_dataframe_formula_differences")
    /\ ~Raised(result)
    /\ Len(result.value) = 2
    /\ result.value[1].Error_Desc = PyStr("A1 -- B3")
    /\ result.value[1].Cell_Reference = PyStr("#DIV/0!")
    /\ result.value[2].Error_Desc = PyStr("A2")

\* The list of missing sheets of an input_data is there when its errors have a
\* "Missing In Spreadsheet 2" entry.
HasMissingSheetsEntry(input_data) ==
    \E k \in DOMAIN ErrorsOf(input_data) :
        ErrorsOf(input_data)[k].key = "Missing In Spreadsheet 2"

MissingSheetsEntry(input_data) ==
    ErrorsOf(input_data)[CHOOSE k \in DOMAIN ErrorsOf(input_data) :
                             ErrorsOf(input_data)[k].key = "Missing In Spreadsheet 2"].value

WithoutId(event) == [f \in DOMAIN event \ {"Event_Id"} |-> event[f]]

\* The events of the sheet of a name, in the order of the collection.
EventsOf(events, name) == SelectSeq(events, LAMBDA e : e.Sheet_Cd = PyStr(name))

\* What the normalizer generates for one sheet, on its own.
GeneratedFor(sheet) ==
    create_dataframe_formula_errors(
        AsInput(check_formula_errors(sheet)),
        FormulaErrorSheetContext(PyStr("?"), PyStr(sheet.title),
                                 PyStr("Formula Error"), PyStr("hard")), 0).out.value

\* The events are one per cell of cells(sheet) over the sheets of wb, each with the
\* name of the sheet of its cell; the events of one sheet are contiguous, the
\* sheets come in workbook order, and the events of one sheet are in the order in
\* which the normalizer generated them.
OneEventPerCellInOrder(events, wb, cells(_)) ==
    /\ \A k \in DOMAIN events :
          \E i \in DOMAIN wb : \E p \in cells(wb[i]) :
              /\ events[k].Sheet_Cd = PyStr(wb[i].title)
              /\ events[k].Cell_Reference = PyStr(Address(p))
    /\ \A i \in DOMAIN wb : \A p \in cells(wb[i]) :
          Cardinality({k \in DOMAIN events :
                          /\ events[k].Sheet_Cd = PyStr(wb[i].title)
                          /\ events[k].Cell_Reference = PyStr(Address(p))}) = 1
    /\ \A k, l \in DOMAIN events :
          k < l => SheetIndex(wb, events[k].Sheet_Cd.s) <= SheetIndex(wb, events[l].Sheet_Cd.s)
    /\ \A i \in DOMAIN wb :
          LET mine == EventsOf(events, wb[i].title)
              generated == GeneratedFor(wb[i])
          IN  [k \in DOMAIN mine |-> WithoutId(mine[k])]
                  = [k \in DOMAIN generated |-> WithoutId(generated[k])]

C21_Precondition ==
    /\ Returned("find_formula_errors")
    /\ call.wb # << >>

\* C21, as claimed: for a workbook with at least one sheet, find_formula_errors
\* returns exactly one event per cell tagged evaluated-error over all sheets, each
\* with the name of the sheet of its cell as Sheet_Cd; the events of one sheet are
\* contiguous, sheets appear in workbook order, and within a sheet the events keep
\* the order in which the normalizer generated them.
C21_Original ==
    C21_Precondition =>
        /\ ~Raised(result)
        /\ OneEventPerCellInOrder(result.value, call.wb, TaggedError)

\* C21, amended: for a workbook with at least one sheet, find_formula_errors
\* returns exactly one event per cell tagged evaluated-error whose value is a text,
\* over all sheets, each with the name of the sheet of its cell as Sheet_Cd; the
\* events of one sheet are contiguous, sheets appear in workbook order, and within
\* a sheet the events keep the order in which the normalizer generated them.
C21_OneEventPerErrorCellInSheetOrder ==
    C21_Precondition =>
        /\ ~Raised(result)
        /\ OneEventPerCellInOrder(result.value, call.wb, TaggedErrorWithText)

\* C21, reached: a workbook of two sheets, the first with #DIV/0! at A1 and A2 and
\* #N/A at B1, the second with an error cell without a value, has given the events
\* of the first sheet at A1, A2, B1, then those of the second.
C21_Witness ==
    /\ C21_Precondition
    /\ Len(call.wb) = 2
    /\ call.wb[1].cells[<<1, 1>>] = Div0
    /\ call.wb[1].cells[<<1, 2>>] = NotAvailable
    /\ call.wb[1].cells[<<2, 1>>] = Div0
    /\ TaggedError(call.wb[2]) # TaggedErrorWithText(call.wb[2])
    /\ TaggedErrorWithText(call.wb[2]) # {}
    /\ ~Raised(result)
    /\ Len(result.value) = 3 + Cardinality(TaggedErrorWithText(call.wb[2]))
    /\ [k \in 1..3 |-> result.value[k].Cell_Reference]
           = <<PyStr("A1"), PyStr("A2"), PyStr("B1")>>
    /\ result.value[4].Sheet_Cd = PyStr(call.wb[2].title)

\* The header sequence read from a sheet: the values of row h over its used columns.
HeaderRead(sheet, h) == [c \in 1..UsedColumns(sheet) |-> ValueAt(sheet, h, c)]

\* C22: for check_sheet_structure with header_row_number > 0, whenever the two
\* header sequences read from the sheets differ, in length or in the value at some
\* position, the status is "Error"; and a length difference that gives no
\* "Header Mismatch" entry always comes with a "Row/Column Count" entry.
C22_DifferingHeadersGiveError ==
    (Returned("check_sheet_structure") /\ call.header_row_number > 0) =>
        LET header1 == HeaderRead(call.sheet1, call.header_row_number)
            header2 == HeaderRead(call.sheet2, call.header_row_number)
        IN  /\ header1 # header2 => result.value.status = "Error"
            /\ (Len(header1) # Len(header2) /\ ~HasEntry(result, "Header Mismatch"))
                   => HasEntry(result, "Row/Column Count")

\* C22, reached: the template's header has two values and the company's has the
\* first of them only; no "Header Mismatch" entry was made, a "Row/Column Count"
\* entry was, and the status is "Error".
C22_Witness ==
    /\ Returned("check_sheet_structure")
    /\ call.header_row_number = 1
    /\ HeaderRead(call.sheet1, 1) = <<PyStr("a"), PyStr("a")>>
    /\ HeaderRead(call.sheet2, 1) = <<PyStr("a")>>
    /\ UsedRows(call.sheet1) = UsedRows(call.sheet2)
    /\ ~HasEntry(result, "Header Mismatch")
    /\ HasEntry(result, "Row/Column Count")
    /\ result.value.status = "Error"

\* The positions both header rows have at which their values differ, and the
\* description of the "Header Mismatch" event that names them, in ascending order.
SharedDifferingPositions(sheet1, sheet2, h) ==
    {c \in 1..Min(UsedColumns(sheet1), UsedColumns(sheet2)) :
        ValueAt(sheet1, h, c) # ValueAt(sheet2, h, c)}

HeaderMismatchDesc(sheet1, sheet2, h) ==
    LET differing == SharedDifferingPositions(sheet1, sheet2, h)
    IN  PyStr(JoinWith([k \in 1..Cardinality(differing) |->
                           MismatchNaming(Nth(differing, k), sheet1, sheet2, h)], " -- "))

IsFOut(name) == \E rest \in {"Costs", "Totals"} : name = "fOut_" \o rest

\* The events of a common sheet are those of its nominal and used extents, followed,
\* only when its name starts with "fOut_" and the values of row 2 differ at a
\* position both sheets use, by one event that names the differing columns of row 2.
HeaderComparedOnlyForFOut(events, name, sheet1, sheet2) ==
    LET of_extents ==
            (IF ExpectedEmptySheets(sheet1, sheet2) # << >> THEN 1 ELSE 0)
            + (IF <<UsedRows(sheet1), UsedColumns(sheet1)>>
                     # <<UsedRows(sheet2), UsedColumns(sheet2)>> THEN 1 ELSE 0)
        of_header == IsFOut(name) /\ SharedDifferingPositions(sheet1, sheet2, 2) # {}
    IN  /\ Len(events) = of_extents + (IF of_header THEN 1 ELSE 0)
        /\ of_header => events[Len(events)].Error_Desc = HeaderMismatchDesc(sheet1, sheet2, 2)

C23_Precondition ==
    /\ Returned("find_shape_differences")
    /\ ~Raised(result)

====
